---- MODULE Spec2Model ----
(***************************************************************************)
(* ImperiumEngine trading DSL: the static validator, the block parser, the *)
(* instruction constructors, the safe evaluator and the interpreter's tree *)
(* walk, as state machines over bounded programs.                          *)
(*                                                                         *)
(* Python values are tagged records: the field ty carries the run-time     *)
(* type the code tests with isinstance or that decides which exception an  *)
(* operation raises.  A text is represented by what the library calls made *)
(* on it return: ast.parse(mode="eval"), ast.parse(mode="exec"), or its    *)
(* characters for the duration texts that the code slices itself.          *)
(* Cursors and positions are 0-based as in the code; a TLA+ sequence s is  *)
(* read at s[i + 1].                                                       *)
(***************************************************************************)
EXTENDS Integers, Sequences, FiniteSets, TLC

VARIABLES
    instructions_list,  \* the raw program handed to StrategyValidator and DSLParser
    errors,             \* StrategyValidator.errors, the class-level list
    fresh,              \* nothing has appended to errors since the last construction
    calls,              \* number of operations performed on the program (bounded)
    vres,               \* outcome of the last validate() call
    pres,               \* outcome of the last DSLParser.parse() call
    scan,               \* a validate() or parse() call in progress, loop turn by loop turn
    evinput,            \* evaluator: the text handed to safe_eval_expr / safe_exec_statement
    evctx,              \* evaluator: the variable mapping handed in
    evres,              \* evaluator: outcome of the last call
    root_instruction,   \* interpreter: the tree owned by the DSLInterpreter
    context,            \* interpreter: Context.variables
    todo,               \* interpreter: nodes whose execute() is still pending, in call order
    status,             \* interpreter: "idle", "running", "done" or "failed"
    runexc,             \* interpreter: exception type run() raised, "none" otherwise
    log,                \* interpreter: history of execute() calls of this run
    peer,               \* a second interpreter: its tree, its Context and its run()
    call,               \* library call: the function called and its arguments
    ret                 \* library call: outcome of the call

parseVars == <<instructions_list, errors, fresh, calls, vres, pres, scan>>
evalVars  == <<evinput, evctx, evres>>
runVars   == <<root_instruction, context, todo, status, runexc, log, peer>>
callVars  == <<call, ret>>
vars      == <<parseVars, evalVars, runVars, callVars>>

-----------------------------------------------------------------------------
(* Bounds of the model *)

MaxProgLen == 4     \* longest raw program of the validator/parser specification
MaxCalls == 2       \* operations performed on one program after its validator is built
MaxRunLen == 4      \* longest raw program whose tree the interpreter runs
MaxDepth == 2       \* nesting depth of the generated expressions

-----------------------------------------------------------------------------
(* Python values used as payloads *)

None == [ty |-> "none"]
PyInt(n) == [ty |-> "int", n |-> n, exp10 |-> 0]
\* the integer n * 10^e, for integers beyond the range of a float
PyBigInt(n, e) == [ty |-> "int", n |-> n, exp10 |-> e]
PyDict(d) == [ty |-> "dict", d |-> d]
\* a text given by its characters
PyChars(cs) == [ty |-> "str", chars |-> cs]

SyntaxError == [syntax |-> "error"]
Parsed(b) == [syntax |-> "ok", body |-> b]
\* a text given by what ast.parse returns for it in mode "eval" and in mode "exec"
PyText(src, ev, ex) == [ty |-> "str", src |-> src, eval |-> ev, exec |-> ex]

\* One raw instruction record: a mapping with a single key, or a non-mapping.
Record(key, val) == [ty |-> "dict", key |-> key, val |-> val]
NonMappingRecord == [ty |-> "int", key |-> "", val |-> None]

NoExc == "none"

-----------------------------------------------------------------------------
(* float() *)

\* sys.float_info.max_10_exp: an int of more decimal digits does not convert
FloatMax10Exp == 308

RECURSIVE Pow10(_)
Pow10(e) == IF e = 0 THEN 1 ELSE 10 * Pow10(e - 1)

Digits == {"0", "1", "2", "3", "4", "5", "6", "7", "8", "9"}

DigitVal(c) ==
    CASE c = "0" -> 0 [] c = "1" -> 1 [] c = "2" -> 2 [] c = "3" -> 3
      [] c = "4" -> 4 [] c = "5" -> 5 [] c = "6" -> 6 [] c = "7" -> 7
      [] c = "8" -> 8 [] c = "9" -> 9

RECURSIVE DecimalValue(_)
DecimalValue(cs) ==
    IF cs = <<>> THEN 0
    ELSE 10 * DecimalValue(SubSeq(cs, 1, Len(cs) - 1)) + DigitVal(cs[Len(cs)])

\* a float of the model: a whole number, or NaN
Fl(v) == [nan |-> FALSE, v |-> v]
NaN == [nan |-> TRUE, v |-> 0]
\* a < b on floats: every comparison with NaN is false
FLt(a, b) == ~a.nan /\ ~b.nan /\ a.v < b.v
FTimes(a, k) == IF a.nan THEN NaN ELSE Fl(a.v * k)

\* a float given as a value: NaN
PyNaN == [ty |-> "float", n |-> 0, exp10 |-> 0, nan |-> TRUE]

\* float(text) for the texts of the model: an optional sign followed by
\* digits or by "nan" converts, the empty text and any other character
\* raise ValueError.
FloatOfChars(cs) ==
    LET signed == cs # <<>> /\ cs[1] \in {"-", "+"}
        body == IF signed THEN Tail(cs) ELSE cs
        sign == IF signed /\ cs[1] = "-" THEN 0 - 1 ELSE 1
    IN  IF body # <<>> /\ \A k \in 1..Len(body) : body[k] \in Digits
        THEN [exc |-> NoExc, v |-> Fl(sign * DecimalValue(body))]
        ELSE IF body = <<"n", "a", "n">> THEN [exc |-> NoExc, v |-> NaN]
        ELSE [exc |-> "ValueError", v |-> Fl(0)]

\* float(number): OverflowError for an int beyond the float range, a float
\* is returned as it is.
FloatOfInt(d) ==
    IF "nan" \in DOMAIN d THEN [exc |-> NoExc, v |-> NaN]
    ELSE IF d.n # 0 /\ d.exp10 > FloatMax10Exp
    THEN [exc |-> "OverflowError", v |-> Fl(0)]
    ELSE [exc |-> NoExc, v |-> Fl(d.n * Pow10(d.exp10))]

Lower(c) == CASE c = "S" -> "s" [] c = "M" -> "m" [] c = "H" -> "h" [] OTHER -> c

-----------------------------------------------------------------------------
(* Instruction tree nodes: the constructors of dsl/instructions *)

CompoundInstruction(instructions) == [t |-> "Compound", instructions |-> instructions]
IfInstruction(condition, block) == [t |-> "If", condition |-> condition, block |-> block]
OperationInstruction(operation) == [t |-> "Operation", operation |-> operation]
IndicatorInstruction(indicator_data) == [t |-> "Indicator", indicator_data |-> indicator_data]
TradeInstruction(trade_data) == [t |-> "Trade", trade_data |-> trade_data]

MIN_WAIT_LENGTH == 2

WaitNode(duration) == [t |-> "Wait", duration |-> duration]

\* WaitInstruction.__init__: the exception it raises ("none" when the node is
\* built) and the node.  Only ValueError is converted to DSLError; the
\* duration is replaced by the minimum when it compares below it.
WaitInstruction(duration) ==
    LET clamp(s) == IF FLt(s, Fl(MIN_WAIT_LENGTH)) THEN Fl(MIN_WAIT_LENGTH) ELSE s
        built(s) == [exc |-> NoExc, node |-> WaitNode(clamp(s))]
        raised(e) == [exc |-> e, node |-> None]
    IN  IF duration.ty \in {"int", "float", "bool"} THEN
            LET f == FloatOfInt(duration)
            IN  IF f.exc # NoExc THEN raised(f.exc) ELSE built(f.v)
        ELSE IF duration.ty = "str" THEN
            IF duration.chars = <<>> THEN raised("IndexError")
            ELSE LET cs == duration.chars
                     unit == Lower(cs[Len(cs)])
                     f == FloatOfChars(SubSeq(cs, 1, Len(cs) - 1))
                 IN  IF f.exc # NoExc THEN raised("DSLError")
                     ELSE IF unit = "s" THEN built(f.v)
                     ELSE IF unit = "m" THEN built(FTimes(f.v, 60))
                     ELSE IF unit = "h" THEN built(FTimes(f.v, 3600))
                     ELSE raised("DSLError")
        ELSE raised("TypeError")

-----------------------------------------------------------------------------
(* StrategyValidator: the per-instruction checks.  Each returns the        *)
(* exception it raises and the messages it appends to the class-level list *)

Err(kind, pos, key) == [kind |-> kind, pos |-> pos, key |-> key]
Checked(es) == [exc |-> NoExc, errs |-> es]
CheckRaised(e) == [exc |-> e, errs |-> <<>>]

SUPPORTED_INDICATORS == {"SMA", "EMA", "ATR", "BollingerBands", "MACD", "RSI"}

validate_if(instr, index) ==
    LET condition == instr.val
    IN  IF condition.ty # "str" THEN Checked(<<Err("if-not-string", index, "")>>)
        ELSE IF condition.eval.syntax # "ok"
             THEN Checked(<<Err("if-bad-condition", index, "")>>)
        ELSE Checked(<<>>)

validate_operation(instr, index) ==
    LET op == instr.val
    IN  IF op.ty # "str" THEN Checked(<<Err("operation-not-string", index, "")>>)
        ELSE IF op.exec.syntax # "ok"
             THEN Checked(<<Err("operation-bad-code", index, "")>>)
        ELSE Checked(<<>>)

\* one "missing key" message per absent key, in the order of the list
MissingKeys(kind, keys, d, index) ==
    LET absent == SelectSeq(keys, LAMBDA k : k \notin DOMAIN d)
    IN  [j \in 1..Len(absent) |-> Err(kind, index, absent[j])]

validate_indicator(instr, index) ==
    LET data == instr.val
    IN  IF data.ty # "dict" THEN CheckRaised("TypeError")   \* "name" in data
        ELSE IF "name" \notin DOMAIN data.d
             THEN Checked(<<Err("indicator-missing-key", index, "name")>>)
        ELSE IF data.d["name"] \notin SUPPORTED_INDICATORS
             THEN Checked(<<Err("indicator-not-supported", index, "")>>)
        ELSE IF data.d["name"] # "MACD"
             THEN Checked(MissingKeys("indicator-missing-key",
                                      <<"period", "source", "var">>, data.d, index))
        ELSE Checked(MissingKeys("macd-missing-key",
                                 <<"fast", "slow", "signal", "source", "var">>,
                                 data.d, index))

validate_trade(instr, index) ==
    LET data == instr.val
    IN  IF data.ty # "dict" THEN CheckRaised("TypeError")   \* key in data
        ELSE LET missing == MissingKeys("trade-missing-key",
                                        <<"action", "symbol", "quantity">>, data.d, index)
             IN  IF "action" \in DOMAIN data.d /\ data.d["action"] \notin {"buy", "sell"}
                 THEN Checked(Append(missing, Err("trade-invalid-action", index, "")))
                 ELSE Checked(missing)

\* MIN_WAIT_LENGTH local to validate_wait: the shortest accepted duration text
validate_wait_MIN_WAIT_LENGTH == 2

validate_wait(instr, index) ==
    LET value == instr.val
    IN  IF value.ty \in {"int", "float", "bool"} THEN Checked(<<>>)
        ELSE IF value.ty = "str" THEN
            IF \/ Len(value.chars) < validate_wait_MIN_WAIT_LENGTH
               \/ Lower(value.chars[Len(value.chars)]) \notin {"s", "m", "h"}
            THEN Checked(<<Err("wait-invalid-format", index, "")>>)
            ELSE IF FloatOfChars(SubSeq(value.chars, 1, Len(value.chars) - 1)).exc # NoExc
                 THEN Checked(<<Err("wait-bad-number", index, "")>>)
            ELSE Checked(<<>>)
        ELSE Checked(<<Err("wait-bad-type", index, "")>>)

-----------------------------------------------------------------------------
(* StrategyValidator._validate_block and validate()                        *)

\* The while loop of _validate_block with cursor i, inside the call that
\* began at start.  errs is the class-level list as it stands.  Returns the
\* exception raised, the returned index and the list afterwards.
RECURSIVE validate_block_loop(_, _, _, _, _)
validate_block_loop(instructions, i, start, stop_at_end, errs) ==
    IF i >= Len(instructions) THEN
        [exc |-> NoExc, index |-> i,
         errs |-> IF stop_at_end THEN Append(errs, Err("unclosed-if", start, ""))
                  ELSE errs]
    ELSE
        LET instr == instructions[i + 1]
            leaf(c) == IF c.exc # NoExc
                       THEN [exc |-> c.exc, index |-> i, errs |-> errs \o c.errs]
                       ELSE validate_block_loop(instructions, i + 1, start, stop_at_end,
                                                errs \o c.errs)
        IN  IF instr.ty # "dict" THEN          \* "if" in instr
                [exc |-> "TypeError", index |-> i, errs |-> errs]
            ELSE IF instr.key = "if" THEN
                LET c == validate_if(instr, i)
                    b == validate_block_loop(instructions, i + 1, i + 1, TRUE,
                                             errs \o c.errs)
                IN  IF b.exc # NoExc THEN b
                    ELSE validate_block_loop(instructions, b.index, start, stop_at_end,
                                             b.errs)
            ELSE IF instr.key = "end" THEN
                IF stop_at_end THEN [exc |-> NoExc, index |-> i + 1, errs |-> errs]
                ELSE validate_block_loop(instructions, i + 1, start, stop_at_end,
                                         Append(errs, Err("unexpected-end", i, "")))
            ELSE IF instr.key = "operation" THEN leaf(validate_operation(instr, i))
            ELSE IF instr.key = "indicator" THEN leaf(validate_indicator(instr, i))
            ELSE IF instr.key = "trade" THEN leaf(validate_trade(instr, i))
            ELSE IF instr.key = "wait" THEN leaf(validate_wait(instr, i))
            ELSE validate_block_loop(instructions, i + 1, start, stop_at_end, errs)

validate_block(instructions, start, stop_at_end, errs) ==
    validate_block_loop(instructions, start, start, stop_at_end, errs)

\* StrategyValidator.validate(): one pass over the whole list from the
\* class-level list as it stands; is_valid looks at the whole list.
validate(instructions, errs) ==
    LET b == validate_block(instructions, 0, FALSE, errs)
    IN  [exc |-> b.exc, is_valid |-> b.exc = NoExc /\ Len(b.errs) = 0, errs |-> b.errs]

-----------------------------------------------------------------------------
(* DSLParser                                                               *)

\* a block that stays on its "end": the cursor is not moved past it
end_of_block_on_end(parsed_instructions, i, errs) ==
    [exc |-> NoExc, compound |-> CompoundInstruction(parsed_instructions),
     index |-> i, errs |-> errs]
\* "end" inside an If: the block built so far and the index after the "end"
end_of_block(parsed_instructions, i, errs) ==
    [exc |-> NoExc, compound |-> CompoundInstruction(parsed_instructions),
     index |-> i + 1, errs |-> errs]

\* The while loop of _parse_block.  The static validate_* calls append to
\* the class-level list and their outcome is not looked at; the node
\* constructors may raise.
RECURSIVE parse_block_loop(_, _, _, _, _, _)
parse_block_loop(instructions, i, start, stop_at_end, parsed_instructions, errs) ==
    LET raise(e, es) == [exc |-> e, compound |-> None, index |-> i, errs |-> es]
    IN
    IF i >= Len(instructions) THEN
        IF stop_at_end THEN raise("DSLError", errs)
        ELSE [exc |-> NoExc, compound |-> CompoundInstruction(parsed_instructions),
              index |-> i, errs |-> errs]
    ELSE
        LET instr == instructions[i + 1]
            leaf(c, node) ==
                IF c.exc # NoExc THEN raise(c.exc, errs \o c.errs)
                ELSE parse_block_loop(instructions, i + 1, start, stop_at_end,
                                      Append(parsed_instructions, node), errs \o c.errs)
        IN  IF instr.ty # "dict" THEN raise("TypeError", errs)     \* "if" in instr
            ELSE IF instr.key = "if" THEN
                LET c == validate_if(instr, i)
                    b == parse_block_loop(instructions, i + 1, i + 1, TRUE, <<>>,
                                          errs \o c.errs)
                IN  IF b.exc # NoExc THEN b
                    ELSE parse_block_loop(instructions, b.index, start, stop_at_end,
                             Append(parsed_instructions,
                                    IfInstruction(instr.val, b.compound)),
                             b.errs)
            ELSE IF instr.key = "end" THEN
                IF stop_at_end
                THEN end_of_block(parsed_instructions, i, errs)
                ELSE raise("DSLError", errs)
            ELSE IF instr.key = "operation" THEN
                leaf(validate_operation(instr, i), OperationInstruction(instr.val))
            ELSE IF instr.key = "indicator" THEN
                leaf(validate_indicator(instr, i), IndicatorInstruction(instr.val))
            ELSE IF instr.key = "trade" THEN
                leaf(validate_trade(instr, i), TradeInstruction(instr.val))
            ELSE IF instr.key = "wait" THEN
                LET c == validate_wait(instr, i)
                    w == WaitInstruction(instr.val)
                IN  IF w.exc # NoExc THEN raise(w.exc, errs \o c.errs)
                    ELSE leaf(c, w.node)
            ELSE parse_block_loop(instructions, i + 1, start, stop_at_end,
                                  parsed_instructions, errs)

parse_block(instructions, start, stop_at_end, errs) ==
    parse_block_loop(instructions, start, start, stop_at_end, <<>>, errs)

\* a parse whose top-level block closes on an "end" and whose cursor is not
\* compared with the length of the list
parse_first_block(instructions, errs) == parse_block(instructions, 0, TRUE, errs)
\* DSLParser.parse: the top-level block, then the check that the cursor
\* reached the end of the list.
parse(instructions, errs) ==
    LET b == parse_block(instructions, 0, FALSE, errs)
    IN  IF b.exc # NoExc THEN b
        ELSE IF b.index # Len(instructions)
             THEN [exc |-> "DSLError", compound |-> None, index |-> b.index, errs |-> b.errs]
        ELSE b

-----------------------------------------------------------------------------
(* Safe evaluator: the syntax trees ast.parse produces                     *)

PyBool(b) == [ty |-> "bool", n |-> IF b THEN 1 ELSE 0, exp10 |-> 0]
PyStr(s) == [ty |-> "str", src |-> s]

Constant(value) == [t |-> "Constant", value |-> value]
Name(id) == [t |-> "Name", id |-> id]
BinOp(left, op, right) == [t |-> "BinOp", left |-> left, op |-> op, right |-> right]
UnaryOp(op, operand) == [t |-> "UnaryOp", op |-> op, operand |-> operand]
BoolOp(op, values) == [t |-> "BoolOp", op |-> op, values |-> values]
Compare(left, ops, comparators) ==
    [t |-> "Compare", left |-> left, ops |-> ops, comparators |-> comparators]
\* keywords: sequence of [arg, value]; arg = "" stands for None (the ** form)
Call(func, args, keywords) ==
    [t |-> "Call", func |-> func, args |-> args, keywords |-> keywords]
keyword(arg, value) == [arg |-> arg, value |-> value]
\* node types without a visit_ method
Attribute(value, attr) == [t |-> "Attribute", value |-> value, attr |-> attr]
Subscript(value, slice) == [t |-> "Subscript", value |-> value, slice |-> slice]
Lambda(body) == [t |-> "Lambda", body |-> body]
\* statements
Assign(targets, value) == [t |-> "Assign", targets |-> targets, value |-> value]
AugAssign(target, op, value) ==
    [t |-> "AugAssign", target |-> target, op |-> op, value |-> value]
Expr(value) == [t |-> "Expr", value |-> value]
TupleNode(elts) == [t |-> "Tuple", elts |-> elts]

ALLOWED_FUNCTIONS == {"implies", "iff", "xor", "nand", "nor"}

\* node types that SafeEvaluator has a visit_ method for
VisitMethods == {"BinOp", "UnaryOp", "Constant", "Name", "BoolOp", "Compare", "Call"}

Ret(v, seen) == [exc |-> NoExc, v |-> v, seen |-> seen]
Raise(e, seen) == [exc |-> e, v |-> None, seen |-> seen]

IsNumber(v) == v.ty \in {"int", "bool"}
\* Python truth value of the values of the model
Truthy(v) == IF IsNumber(v) THEN v.n # 0 ELSE IF v.ty = "str" THEN v.src # "" ELSE v.ty # "none"

\* left % right on Python ints: the result takes the sign of the divisor
PyMod(a, b) == IF b > 0 THEN a % b ELSE 0 - ((0 - a) % (0 - b))

\* the arithmetic of visit_binop on two evaluated operands
ApplyBinOp(op, left, right, seen) ==
    IF op \notin {"Add", "Sub", "Mult", "Mod"} THEN Raise("DSLError", seen)
    ELSE IF ~(IsNumber(left) /\ IsNumber(right)) THEN Raise("TypeError", seen)
    ELSE IF op = "Add" THEN Ret(PyInt(left.n + right.n), seen)
    ELSE IF op = "Sub" THEN Ret(PyInt(left.n - right.n), seen)
    ELSE IF op = "Mult" THEN Ret(PyInt(left.n * right.n), seen)
    ELSE IF right.n = 0 THEN Raise("ZeroDivisionError", seen)
    ELSE Ret(PyInt(PyMod(left.n, right.n)), seen)

ApplyUnaryOp(op, operand, seen) ==
    IF op = "Not" THEN Ret(PyBool(~Truthy(operand)), seen)
    ELSE IF op \notin {"UAdd", "USub"} THEN Raise("DSLError", seen)
    ELSE IF ~IsNumber(operand) THEN Raise("TypeError", seen)
    ELSE IF op = "UAdd" THEN Ret(PyInt(operand.n), seen)
    ELSE Ret(PyInt(0 - operand.n), seen)

\* one comparison step of visit_compare: [exc, holds]
ApplyCompare(op, left, right) ==
    IF op \in {"Eq", "NotEq"} THEN
        LET same == IF IsNumber(left) /\ IsNumber(right) THEN left.n = right.n
                    ELSE left = right
        IN  [exc |-> NoExc, holds |-> IF op = "Eq" THEN same ELSE ~same]
    ELSE IF op \notin {"Gt", "GtE", "Lt", "LtE"} THEN [exc |-> "DSLError", holds |-> FALSE]
    ELSE IF left.ty = "str" /\ right.ty = "str" THEN
        \* texts: the empty text comes before every other; the mappings of
        \* the model hold no two different non-empty texts
        LET lt == left.src = "" /\ right.src # ""
            gt == right.src = "" /\ left.src # ""
            eq == left.src = right.src
        IN  [exc |-> NoExc,
             holds |-> CASE op = "Gt" -> ~(lt \/ eq)
                         [] op = "GtE" -> ~lt
                         [] op = "Lt" -> ~(gt \/ eq)
                         [] op = "LtE" -> ~gt]
    ELSE IF ~(IsNumber(left) /\ IsNumber(right)) THEN [exc |-> "TypeError", holds |-> FALSE]
    ELSE [exc |-> NoExc,
          holds |-> CASE op = "Gt" -> ~(left.n <= right.n)
                      [] op = "GtE" -> ~(left.n < right.n)
                      [] op = "Lt" -> ~(left.n >= right.n)
                      [] op = "LtE" -> ~(left.n > right.n)]

\* Python's "a and b", "a or b" on values
PyAnd(a, b) == IF Truthy(a) THEN b ELSE a
PyOr(a, b) == IF Truthy(a) THEN a ELSE b
PyNot(a) == PyBool(~Truthy(a))

\* the five functions safe_eval_expr puts in the local context
FunctionValue(name) == [ty |-> "function", name |-> name]

ApplyLambda(name, x, y) ==
    CASE name = "implies" -> PyOr(PyNot(x), y)
      [] name = "iff" -> PyOr(PyAnd(x, y), PyAnd(PyNot(x), PyNot(y)))
      [] name = "xor" -> PyOr(PyAnd(x, PyNot(y)), PyAnd(PyNot(x), y))
      [] name = "nand" -> PyNot(PyAnd(x, y))
      [] name = "nor" -> PyNot(PyOr(x, y))

\* func(*args, **kwargs) for a value found in the context: the lambdas take
\* exactly the parameters x and y, anything else in the context is not callable
CallValue(func, args, kwargs, seen) ==
    LET given == {kwargs[j].arg : j \in 1..Len(kwargs)}
        positional == {<<"x", "y">>[j] : j \in 1..(IF Len(args) > 2 THEN 2 ELSE Len(args))}
        kw(nm) == kwargs[CHOOSE j \in 1..Len(kwargs) :
                            /\ kwargs[j].arg = nm
                            /\ \A l \in (j + 1)..Len(kwargs) : kwargs[l].arg # nm].v
        arg(nm, pos) == IF Len(args) >= pos THEN args[pos] ELSE kw(nm)
    IN  IF func.ty # "function" THEN Raise("TypeError", seen)
        ELSE IF \/ Len(args) > 2
                \/ ~(given \subseteq {"x", "y"})
                \/ given \cap positional # {}
                \/ given \cup positional # {"x", "y"}
             THEN Raise("TypeError", seen)
        ELSE Ret(ApplyLambda(func.name, arg("x", 1), arg("y", 2)), seen)

\* SafeEvaluator.generic_visit: every node type without a visit_ method
generic_visit(node, seen) == Raise("DSLError", seen)

\* The visit_ methods below take the outcome of self.visit() on each operand
\* in place of the operand; an outcome a method does not look at is that of
\* an operand it never visits.

visit_binop(node, left, right) ==
    IF left.exc # NoExc THEN left
    ELSE LET seen == left.seen \o right.seen
         IN  IF right.exc # NoExc THEN Raise(right.exc, seen)
             ELSE ApplyBinOp(node.op, left.v, right.v, seen)

visit_unaryop(node, operand) ==
    IF operand.exc # NoExc THEN operand
    ELSE ApplyUnaryOp(node.op, operand.v, operand.seen)

visit_constant(node, ctx) == Ret(node.value, <<>>)

visit_name(node, ctx) ==
    IF node.id \in DOMAIN ctx THEN Ret(ctx[node.id], <<>>) ELSE Raise("DSLError", <<>>)

\* the for loop of visit_boolop over node.values from position k (1-based):
\* stops at the first falsy (And) or truthy (Or) value
RECURSIVE visit_boolop_loop(_, _, _, _)
visit_boolop_loop(op, values, k, seen) ==
    IF k > Len(values) THEN Ret(PyBool(op = "And"), seen)
    ELSE LET r == values[k]
             seen2 == seen \o r.seen
         IN  IF r.exc # NoExc THEN Raise(r.exc, seen2)
             ELSE IF op = "And" /\ ~Truthy(r.v) THEN Ret(PyBool(FALSE), seen2)
             ELSE IF op = "Or" /\ Truthy(r.v) THEN Ret(PyBool(TRUE), seen2)
             ELSE visit_boolop_loop(op, values, k + 1, seen2)

\* an and/or that visits every operand before it decides
visit_boolop_eager(node, values) ==
    LET raised == {j \in 1..Len(values) : values[j].exc # NoExc}
        first == CHOOSE j \in raised : \A o \in raised : j <= o
        seen[k \in 0..Len(values)] == IF k = 0 THEN <<>> ELSE seen[k - 1] \o values[k].seen
    IN  IF node.op \notin {"And", "Or"} THEN Raise("DSLError", <<>>)
        ELSE IF raised # {} THEN Raise(values[first].exc, seen[first])
        ELSE IF node.op = "And"
             THEN Ret(PyBool(\A j \in 1..Len(values) : Truthy(values[j].v)),
                      seen[Len(values)])
        ELSE Ret(PyBool(\E j \in 1..Len(values) : Truthy(values[j].v)), seen[Len(values)])
visit_boolop(node, values) ==
    IF node.op \in {"And", "Or"} THEN visit_boolop_loop(node.op, values, 1, <<>>)
    ELSE Raise("DSLError", <<>>)

\* the for loop of visit_compare over zip(ops, comparators) from position k
RECURSIVE visit_compare_loop(_, _, _, _, _)
visit_compare_loop(ops, comparators, k, left, seen) ==
    IF k > Len(ops) \/ k > Len(comparators) THEN Ret(PyBool(TRUE), seen)
    ELSE LET right == comparators[k]
             seen2 == seen \o right.seen
         IN  IF right.exc # NoExc THEN Raise(right.exc, seen2)
             ELSE LET c == ApplyCompare(ops[k], left, right.v)
                  IN  IF c.exc # NoExc THEN Raise(c.exc, seen2)
                      ELSE IF ~c.holds THEN Ret(PyBool(FALSE), seen2)
                      ELSE visit_compare_loop(ops, comparators, k + 1, right.v, seen2)

visit_compare(node, left, comparators) ==
    IF left.exc # NoExc THEN left
    ELSE visit_compare_loop(node.ops, comparators, 1, left.v, left.seen)

\* [self.visit(arg) for arg in node.args] from position k; acc = values so far
RECURSIVE visit_args(_, _, _, _)
visit_args(args, k, acc, seen) ==
    IF k > Len(args) THEN Ret(acc, seen)
    ELSE LET r == args[k]
         IN  IF r.exc # NoExc THEN Raise(r.exc, seen \o r.seen)
             ELSE visit_args(args, k + 1, Append(acc, r.v), seen \o r.seen)

\* {kw.arg: self.visit(kw.value) for kw in keywords if kw.arg is not None}:
\* a keyword whose arg is None is passed over, its value is not visited
RECURSIVE visit_keywords(_, _, _, _, _)
visit_keywords(keywords, values, k, acc, seen) ==
    IF k > Len(keywords) THEN Ret(acc, seen)
    ELSE IF keywords[k].arg = "" THEN visit_keywords(keywords, values, k + 1, acc, seen)
    ELSE LET r == values[k]
         IN  IF r.exc # NoExc THEN Raise(r.exc, seen \o r.seen)
             ELSE visit_keywords(keywords, values, k + 1,
                                 Append(acc, [arg |-> keywords[k].arg, v |-> r.v]),
                                 seen \o r.seen)

visit_call(node, ctx, arg_values, keyword_values) ==
    IF node.func.t # "Name" THEN Raise("DSLError", <<>>)
    ELSE IF node.func.id \notin ALLOWED_FUNCTIONS THEN Raise("DSLError", <<>>)
    ELSE LET args == visit_args(arg_values, 1, <<>>, <<>>)
         IN  IF args.exc # NoExc THEN args
             ELSE LET kwargs == visit_keywords(node.keywords, keyword_values, 1,
                                               <<>>, args.seen)
                  IN  IF kwargs.exc # NoExc THEN kwargs
                      ELSE IF node.func.id \notin DOMAIN ctx
                           THEN Raise("DSLError", kwargs.seen)
                      ELSE CallValue(ctx[node.func.id], args.v, kwargs.v, kwargs.seen)

\* NodeVisitor.visit: dispatch on the node type.  seen lists, in visiting
\* order, the type of every node visit() was called on.
RECURSIVE visit(_, _)
visit(node, ctx) ==
    LET all(nodes) == [j \in 1..Len(nodes) |-> visit(nodes[j], ctx)]
        r == CASE node.t = "BinOp" ->
                    visit_binop(node, visit(node.left, ctx), visit(node.right, ctx))
               [] node.t = "UnaryOp" -> visit_unaryop(node, visit(node.operand, ctx))
               [] node.t = "Constant" -> visit_constant(node, ctx)
               [] node.t = "Name" -> visit_name(node, ctx)
               [] node.t = "BoolOp" -> visit_boolop(node, all(node.values))
               [] node.t = "Compare" ->
                    visit_compare(node, visit(node.left, ctx), all(node.comparators))
               [] node.t = "Call" ->
                    visit_call(node, ctx, all(node.args),
                               [j \in 1..Len(node.keywords) |->
                                   visit(node.keywords[j].value, ctx)])
               [] OTHER -> generic_visit(node, <<>>)
    IN  [r EXCEPT !.seen = <<node.t>> \o r.seen]

\* self.visit() on every node of a list
visit_all(nodes, ctx) == [j \in 1..Len(nodes) |-> visit(nodes[j], ctx)]

-----------------------------------------------------------------------------
(* Texts given by their lexemes: a name is one element, a blank, a bracket, *)
(* a comma or an infix symbol is an element of its own.                     *)

\* the five substitutions of safe_eval_expr, in the order they are applied
InfixOperators ==
    <<[symbol |-> "→", fn |-> "implies"], [symbol |-> "↔", fn |-> "iff"],
      [symbol |-> "⊕", fn |-> "xor"], [symbol |-> "↑", fn |-> "nand"],
      [symbol |-> "↓", fn |-> "nor"]>>

InfixSymbols == {InfixOperators[j].symbol : j \in 1..Len(InfixOperators)}

\* \S+ from position i, taken greedily: the last position of the run
RunEnd(cs, i) ==
    CHOOSE e \in i..Len(cs) :
        /\ \A k \in i..e : cs[k] # " "
        /\ e = Len(cs) \/ cs[e + 1] = " "

\* \s* from position p: the first position after the blanks
SkipSpaces(cs, p) ==
    CHOOSE q \in p..(Len(cs) + 1) :
        /\ \A k \in p..(q - 1) : cs[k] = " "
        /\ q = Len(cs) + 1 \/ cs[q] # " "

\* behind group 1 and the blanks: the symbol at position p, and behind it and
\* more blanks something for group 2
SymbolAt(cs, p, symbol) ==
    /\ p <= Len(cs)
    /\ cs[p] = symbol
    /\ SkipSpaces(cs, p + 1) <= Len(cs)

\* the positions where group 1 of (\S+)\s*symbol\s*(\S+) can end for a match
\* that starts at i
MatchEnds(cs, i, symbol) ==
    {j \in i..RunEnd(cs, i) : SymbolAt(cs, SkipSpaces(cs, j + 1), symbol)}

\* the positions from pos on where a match starts
MatchStarts(cs, pos, symbol) ==
    {i \in pos..Len(cs) : cs[i] # " " /\ MatchEnds(cs, i, symbol) # {}}

Least(S) == CHOOSE s \in S : \A o \in S : s <= o
Greatest(S) == CHOOSE s \in S : \A o \in S : s >= o

\* the match whose group 1 is cs[i..j] and whose group 2 starts at q
MatchGroups(cs, i, j, q) ==
    [start |-> i, group1 |-> SubSeq(cs, i, j), group2 |-> SubSeq(cs, q, RunEnd(cs, q)),
     end |-> RunEnd(cs, q)]

\* the match that starts at i: group 1 is as long as it can be
MatchFrom(cs, i, j) == MatchGroups(cs, i, j, SkipSpaces(cs, SkipSpaces(cs, j + 1) + 1))
MatchAt(cs, i, symbol) == MatchFrom(cs, i, Greatest(MatchEnds(cs, i, symbol)))

\* the template with its groups the wrong way round
Replacement_swapped(fn, group1, group2) ==
    <<fn, "(">> \o group2 \o <<",", " ">> \o group1 \o <<")">>
\* the template r"fn(\1, \2)"
Replacement(fn, group1, group2) ==
    <<fn, "(">> \o group1 \o <<",", " ">> \o group2 \o <<")">>

\* re.sub(r"(\S+)\s*symbol\s*(\S+)", r"fn(\1, \2)", cs) from position pos:
\* the leftmost match, its first group as long as it can be, is replaced and
\* the search goes on behind it
RECURSIVE re_sub(_, _, _, _)
re_sub(symbol, fn, cs, pos) ==
    IF MatchStarts(cs, pos, symbol) = {} THEN SubSeq(cs, pos, Len(cs))
    ELSE LET m == MatchAt(cs, Least(MatchStarts(cs, pos, symbol)), symbol)
         IN  SubSeq(cs, pos, m.start - 1) \o Replacement(fn, m.group1, m.group2)
                 \o re_sub(symbol, fn, cs, m.end + 1)

\* the five re.sub calls, each on the result of the one before
RECURSIVE InfixRewrite(_, _)
InfixRewrite(cs, k) ==
    IF k > Len(InfixOperators) THEN cs
    ELSE InfixRewrite(re_sub(InfixOperators[k].symbol, InfixOperators[k].fn, cs, 1), k + 1)

Punctuation == {" ", "(", ")", ","}
IsNameLexeme(c) == c \notin Punctuation \cup InfixSymbols
\* name lexemes written together are one longer identifier, which no mapping
\* of the model binds
JoinedName == "ab"

\* the tokens of a text: blanks separate, adjacent names join
RECURSIVE Tokens(_)
Tokens(cs) ==
    IF cs = <<>> THEN <<>>
    ELSE IF Head(cs) = " " THEN Tokens(Tail(cs))
    ELSE IF Len(cs) >= 2 /\ IsNameLexeme(cs[1]) /\ IsNameLexeme(cs[2])
         THEN Tokens(<<JoinedName>> \o Tail(Tail(cs)))
    ELSE <<Head(cs)>> \o Tokens(Tail(cs))

\* nothing could be read: next is of no use
ParseFail == [ok |-> FALSE, node |-> None, nodes |-> <<>>, next |-> 0]
ParseOk(node, nodes, next) == [ok |-> TRUE, node |-> node, nodes |-> nodes, next |-> next]

\* the token at position k, "" behind the last one
TokenAt(toks, k) == IF k <= Len(toks) THEN toks[k] ELSE ""

\* ( expression ): inner is what was read behind the opening bracket
Bracketed(toks, inner) ==
    IF inner.ok /\ TokenAt(toks, inner.next) = ")"
    THEN ParseOk(inner.node, <<>>, inner.next + 1)
    ELSE ParseFail

\* name(arguments): args is what was read behind the opening bracket
CallOf(name, args) ==
    IF args.ok THEN ParseOk(Call(Name(name), args.nodes, <<>>), <<>>, args.next)
    ELSE ParseFail

\* the arguments of a call: first is the first argument, rest the arguments
\* read behind the comma that follows it
Arguments(toks, first, rest) ==
    IF ~first.ok THEN ParseFail
    ELSE IF TokenAt(toks, first.next) = ")" THEN ParseOk(None, <<first.node>>, first.next + 1)
    ELSE IF TokenAt(toks, first.next) # "," THEN ParseFail
    ELSE IF rest.ok THEN ParseOk(None, <<first.node>> \o rest.nodes, rest.next)
    ELSE ParseFail

\* Python's grammar on the tokens from position pos, as far as these texts
\* use it: a name, a call name(arguments) and a bracketed expression (mode
\* "expr"), and the arguments of a call up to its closing bracket (mode
\* "args").  next is the position behind what was read.
RECURSIVE ParseFrom(_, _, _)
ParseFrom(toks, pos, mode) ==
    IF pos > Len(toks) THEN ParseFail
    ELSE IF mode = "expr" THEN
        IF toks[pos] = "(" THEN Bracketed(toks, ParseFrom(toks, pos + 1, "expr"))
        ELSE IF toks[pos] \in {")", ","} THEN ParseFail
        ELSE IF TokenAt(toks, pos + 1) = "("
             THEN CallOf(toks[pos], ParseFrom(toks, pos + 2, "args"))
        ELSE ParseOk(Name(toks[pos]), <<>>, pos + 1)
    ELSE IF toks[pos] = ")" THEN ParseOk(None, <<>>, pos + 1)
    ELSE Arguments(toks, ParseFrom(toks, pos, "expr"),
                   ParseFrom(toks, ParseFrom(toks, pos, "expr").next + 1, "args"))

\* ast.parse(cs, mode=mode): an infix symbol is an invalid character, a text
\* that starts with a blank is wrongly indented, an empty text is no
\* expression but an empty module
ast_parse(cs, mode) ==
    LET toks == Tokens(cs)
        r == ParseFrom(toks, 1, "expr")
    IN  IF toks = <<>> THEN
            IF mode = "exec" THEN Parsed(<<>>) ELSE SyntaxError
        ELSE IF cs[1] = " " THEN SyntaxError
        ELSE IF \E k \in 1..Len(toks) : toks[k] \in InfixSymbols THEN SyntaxError
        ELSE IF ~(r.ok /\ r.next = Len(toks) + 1) THEN SyntaxError
        ELSE IF mode = "eval" THEN Parsed(r.node)
        ELSE Parsed(<<Expr(r.node)>>)

\* ast.parse(expr, mode="eval") behind the five substitutions
EvalSyntax(expr) ==
    IF "chars" \in DOMAIN expr THEN ast_parse(InfixRewrite(expr.chars, 1), "eval")
    ELSE expr.eval

\* ast.parse(statement, mode="exec"): no substitution comes before it
ExecSyntax(statement) ==
    IF "chars" \in DOMAIN statement THEN ast_parse(statement.chars, "exec")
    ELSE statement.exec

\* dict(context) plus the five lambdas
local_context(ctx) ==
    [k \in DOMAIN ctx \cup ALLOWED_FUNCTIONS |->
        IF k \in ALLOWED_FUNCTIONS THEN FunctionValue(k) ELSE ctx[k]]

\* safe_eval_expr: every exception raised inside the try leaves as DSLError.
\* The mapping handed in is only copied; after is the mapping as the call
\* leaves it.
safe_eval_expr(expr, ctx) ==
    IF expr.ty # "str"                      \* re.sub on a non-text, before the try
    THEN [exc |-> "TypeError", v |-> None, seen |-> <<>>, after |-> ctx]
    ELSE LET tree == EvalSyntax(expr)
         IN  IF tree.syntax # "ok"
             THEN [exc |-> "DSLError", v |-> None, seen |-> <<>>, after |-> ctx]
             ELSE LET r == visit(tree.body, local_context(ctx))
                  IN  [exc |-> IF r.exc # NoExc THEN "DSLError" ELSE NoExc,
                       v |-> r.v, seen |-> r.seen, after |-> ctx]

\* a store that keeps only the assigned name
SetItem_drop_others(ctx, var_name, value) == [k \in {var_name} |-> value]
\* context[var_name] = value
SetItem(ctx, var_name, value) ==
    [k \in DOMAIN ctx \cup {var_name} |-> IF k = var_name THEN value ELSE ctx[k]]

\* keyword parameters print() accepts
OutputKeywords == {"sep", "end", "file", "flush"}

ExecOut(e, seen, after) == [exc |-> e, v |-> None, seen |-> seen, after |-> after]

\* an assignment that binds the name before its value is known
exec_assign_bind_first(node, ctx) ==
    IF Len(node.targets) # 1 \/ node.targets[1].t # "Name"
    THEN ExecOut("DSLError", <<>>, ctx)
    ELSE LET value == visit(node.value, ctx)
         IN  IF value.exc # NoExc
             THEN ExecOut(value.exc, value.seen, SetItem(ctx, node.targets[1].id, None))
             ELSE ExecOut(NoExc, value.seen, SetItem(ctx, node.targets[1].id, value.v))
\* the ast.Assign branch: one Name target, the value is evaluated, then
\* context[var_name] = value
exec_assign(node, ctx) ==
    IF Len(node.targets) # 1 \/ node.targets[1].t # "Name"
    THEN ExecOut("DSLError", <<>>, ctx)
    ELSE LET value == visit(node.value, ctx)
         IN  IF value.exc # NoExc THEN ExecOut(value.exc, value.seen, ctx)
             ELSE ExecOut(NoExc, value.seen, SetItem(ctx, node.targets[1].id, value.v))

\* safe_exec_statement: only what ast.parse raises is converted to DSLError,
\* what the evaluator raises leaves as raised.
safe_exec_statement(statement, ctx) ==
    LET out(e, seen, after) == ExecOut(e, seen, after)
        tree == ExecSyntax(statement)
    IN  IF statement.ty # "str" THEN out("DSLError", <<>>, ctx)
        ELSE IF tree.syntax # "ok" THEN out("DSLError", <<>>, ctx)
        ELSE IF Len(tree.body) # 1 THEN out("DSLError", <<>>, ctx)
        ELSE LET node == tree.body[1]
             IN  IF node.t = "Assign" THEN exec_assign(node, ctx)
                 ELSE IF node.t = "Expr" THEN
                     IF node.value.t # "Call" THEN out("DSLError", <<>>, ctx)
                     ELSE IF node.value.func.t # "Name" \/ node.value.func.id # "print"
                          THEN out("DSLError", <<>>, ctx)
                     ELSE LET args == visit_args(visit_all(node.value.args, ctx), 1, <<>>, <<>>)
                          IN  IF args.exc # NoExc THEN out(args.exc, args.seen, ctx)
                              ELSE LET kwargs ==
                                         visit_keywords(node.value.keywords,
                                             visit_all([j \in 1..Len(node.value.keywords) |->
                                                           node.value.keywords[j].value], ctx),
                                             1, <<>>, args.seen)
                                   IN  IF kwargs.exc # NoExc
                                       THEN out(kwargs.exc, kwargs.seen, ctx)
                                       ELSE IF \E j \in 1..Len(kwargs.v) :
                                                  kwargs.v[j].arg \notin OutputKeywords
                                            THEN out("TypeError", kwargs.seen, ctx)
                                       ELSE out(NoExc, kwargs.seen, ctx)
                 ELSE out("DSLError", <<>>, ctx)


-----------------------------------------------------------------------------
(* Numbers of dsl/utils.py.  A Python float is modelled as the exact        *)
(* fraction num/den in lowest terms with den > 0: rounding is not modelled. *)

RECURSIVE Gcd(_, _)
Gcd(a, b) == IF b = 0 THEN a ELSE Gcd(b, a % b)

Magnitude(n) == IF n < 0 THEN 0 - n ELSE n

Frac(n, d) ==
    LET g == Gcd(Magnitude(n), Magnitude(d))
        s == IF d < 0 THEN 0 - 1 ELSE 1
    IN  [num |-> (s * n) \div g, den |-> (s * d) \div g]

FInt(n) == Frac(n, 1)
FAdd(a, b) == Frac(a.num * b.den + b.num * a.den, a.den * b.den)
FSub(a, b) == Frac(a.num * b.den - b.num * a.den, a.den * b.den)
FMul(a, b) == Frac(a.num * b.num, a.den * b.den)
\* a / b for b # 0
FDiv(a, b) == Frac(a.num * b.den, a.den * b.num)
FLess(a, b) == a.num * b.den < b.num * a.den
FMax(a, b) == IF FLess(a, b) THEN b ELSE a
FMin(a, b) == IF FLess(b, a) THEN b ELSE a
FAbs(a) == Frac(Magnitude(a.num), a.den)

\* sum(xs)
RECURSIVE FSum(_)
FSum(xs) == IF xs = <<>> THEN FInt(0) ELSE FAdd(xs[1], FSum(Tail(xs)))

\* the slices xs[-n:], xs[:n] and xs[n:] for n >= 0 (xs[-0:] is all of xs)
LastN(xs, n) ==
    IF n = 0 \/ n >= Len(xs) THEN xs ELSE SubSeq(xs, Len(xs) - n + 1, Len(xs))
FirstN(xs, n) == SubSeq(xs, 1, IF n < Len(xs) THEN n ELSE Len(xs))
From(xs, n) == SubSeq(xs, n + 1, Len(xs))

Returns(v) == [exc |-> NoExc, v |-> v]
Raises(e) == [exc |-> e, v |-> None]

\* a compute_sma that averages whatever it is given
compute_sma_unguarded(prices, period) ==
    IF period = 0 THEN Raises("ZeroDivisionError")
    ELSE Returns(FDiv(FSum(LastN(prices, period)), FInt(period)))
\* compute_sma: the mean of the last period prices
compute_sma(prices, period) ==
    IF Len(prices) < period THEN Raises("DSLError")
    ELSE IF period = 0 THEN Raises("ZeroDivisionError")
    ELSE Returns(FDiv(FSum(LastN(prices, period)), FInt(period)))

\* the running value of the loop  ema = price * k + ema * (1 - k)  after each
\* of the prices that follow the first period ones, seeded with their mean
EmaSteps(prices, period) ==
    LET k == Frac(2, period + 1)
        seed == compute_sma(FirstN(prices, period), period).v
        rest == From(prices, period)
        ema[j \in 0..Len(rest)] ==
            IF j = 0 THEN seed
            ELSE FAdd(FMul(rest[j], k), FMul(ema[j - 1], FSub(FInt(1), k)))
    IN  ema

\* compute_ema: the last value of the running average
compute_ema(prices, period) ==
    IF Len(prices) < period THEN Raises("DSLError")
    ELSE IF compute_sma(FirstN(prices, period), period).exc # NoExc
         THEN Raises(compute_sma(FirstN(prices, period), period).exc)
    ELSE Returns(EmaSteps(prices, period)[Len(prices) - period])

\* compute_ema_series: one value per price after the first period ones
compute_ema_series(prices, period) ==
    IF Len(prices) < period THEN Raises("DSLError")
    ELSE IF compute_sma(FirstN(prices, period), period).exc # NoExc
         THEN Raises(compute_sma(FirstN(prices, period), period).exc)
    ELSE Returns([j \in 1..(Len(prices) - period) |-> EmaSteps(prices, period)[j]])

\* compute_atr: mean of the last period true ranges; highs[i] and lows[i] are
\* read for every index of closes but the first
compute_atr(highs, lows, closes, period) ==
    IF Len(closes) < period + 1 THEN Raises("DSLError")
    ELSE IF Len(closes) > 1 /\ (Len(highs) < Len(closes) \/ Len(lows) < Len(closes))
         THEN Raises("IndexError")
    ELSE LET true_ranges ==
                 [j \in 1..(Len(closes) - 1) |->
                     FMax(FSub(highs[j + 1], lows[j + 1]),
                          FMax(FAbs(FSub(highs[j + 1], closes[j])),
                               FAbs(FSub(lows[j + 1], closes[j]))))]
         IN  IF Len(true_ranges) < period THEN Raises("DSLError")
             ELSE IF period = 0 THEN Raises("ZeroDivisionError")
             ELSE Returns(FDiv(FSum(LastN(true_ranges, period)), FInt(period)))

\* statistics.stdev(xs) ** 2: StatisticsError for fewer than two points
SampleVariance(xs) ==
    IF Len(xs) < 2 THEN Raises("StatisticsError")
    ELSE LET mean == FDiv(FSum(xs), FInt(Len(xs)))
             sq == [j \in 1..Len(xs) |-> FMul(FSub(xs[j], mean), FSub(xs[j], mean))]
         IN  Returns(FDiv(FSum(sq), FInt(Len(xs) - 1)))

\* the number base + coef * sqrt(radicand)
Surd(base, coef, radicand) == [base |-> base, coef |-> coef, radicand |-> radicand]

\* compute_bollinger_bands: middle -/+ multiplier standard deviations
compute_bollinger_bands(prices, period, multiplier) ==
    IF Len(prices) < period THEN Raises("DSLError")
    ELSE LET middle == compute_sma(prices, period)
             variance == SampleVariance(LastN(prices, period))
         IN  IF middle.exc # NoExc THEN Raises(middle.exc)
             ELSE IF variance.exc # NoExc THEN Raises(variance.exc)
             ELSE Returns([lower |-> Surd(middle.v, FSub(FInt(0), multiplier), variance.v),
                           middle |-> middle.v,
                           upper |-> Surd(middle.v, multiplier, variance.v)])

\* zip(ema_fast[-len(ema_slow):], ema_slow) of compute_macd, element by
\* element f - s
macd_series(ema_fast, ema_slow) ==
    LET cut == LastN(ema_fast, Len(ema_slow))
        n == IF Len(cut) < Len(ema_slow) THEN Len(cut) ELSE Len(ema_slow)
    IN  [j \in 1..n |-> FSub(cut[j], ema_slow[j])]

\* compute_macd
compute_macd(prices, fast, slow, signal) ==
    IF Len(prices) < slow THEN Raises("DSLError")
    ELSE LET ema_fast == compute_ema_series(prices, fast)
             ema_slow == compute_ema_series(prices, slow)
         IN  IF ema_fast.exc # NoExc THEN Raises(ema_fast.exc)
             ELSE IF ema_slow.exc # NoExc THEN Raises(ema_slow.exc)
             ELSE LET series == macd_series(ema_fast.v, ema_slow.v)
                  IN  IF series = <<>> THEN Raises("IndexError")    \* macd_series[-1]
                      ELSE LET macd_last == series[Len(series)]
                               signal_series == compute_ema_series(series, signal)
                           IN  IF signal_series.exc # NoExc THEN Raises(signal_series.exc)
                               ELSE IF signal_series.v = <<>>
                                    THEN Raises("IndexError")       \* signal_series[-1]
                               ELSE LET signal_last ==
                                            signal_series.v[Len(signal_series.v)]
                                    IN  Returns([macd |-> macd_last,
                                                 signal |-> signal_last,
                                                 histogram |-> FSub(macd_last, signal_last)])

\* compute_rsi: Wilder's smoothing of the gains and losses
compute_rsi(prices, period) ==
    IF Len(prices) < period + 1 THEN Raises("DSLError")
    ELSE IF period = 0 THEN Raises("ZeroDivisionError")
    ELSE LET n == Len(prices) - 1
             delta == [j \in 1..n |-> FSub(prices[j + 1], prices[j])]
             gains == [j \in 1..n |-> FMax(delta[j], FInt(0))]
             losses == [j \in 1..n |-> FAbs(FMin(delta[j], FInt(0)))]
             smooth(xs) ==
                 LET avg[j \in period..n] ==
                         IF j = period
                         THEN FDiv(FSum(FirstN(xs, period)), FInt(period))
                         ELSE FDiv(FAdd(FMul(avg[j - 1], FInt(period - 1)), xs[j]),
                                   FInt(period))
                 IN  avg[n]
             avg_gain == smooth(gains)
             avg_loss == smooth(losses)
         IN  IF avg_loss = FInt(0) THEN Returns(FInt(100))
             ELSE Returns(FSub(FInt(100),
                               FDiv(FInt(100), FAdd(FInt(1), FDiv(avg_gain, avg_loss)))))

-----------------------------------------------------------------------------
(* Instruction.execute of the leaf and If instructions                     *)

PyList(items) == [ty |-> "list", items |-> items]

\* a float, and the value an indicator function returned as a context value
PyFloat(q) == [ty |-> "float", q |-> q]
Boxed(v) == IF DOMAIN v = {"num", "den"} THEN PyFloat(v) ELSE PyDict(v)

\* dict.get(key, default) on the payload of an indicator
Get(d, key, default) == IF key \in DOMAIN d THEN d[key] ELSE default

\* IndicatorInstruction._get_required_param: .get(param_name) is None for an
\* absent key (no payload of the model holds None as a value)
get_required_param(indicator_data, param_name) ==
    IF param_name \notin DOMAIN indicator_data.d THEN Raises("DSLError")
    ELSE Returns(indicator_data.d[param_name])

\* int(value): the number of an int, TypeError for None
IntOf(value) ==
    IF value = None THEN Raises("TypeError") ELSE Returns(value.n)

\* the items of a list of the context; len() of anything else is a TypeError
ItemsOf(value) ==
    IF value.ty = "list" THEN Returns(value.items) ELSE Raises("TypeError")

\* IndicatorInstruction._compute_indicator: DSLError is re-raised, every
\* other exception is converted to DSLError
compute_indicator(indicator_data, name, prices, ctx) ==
    LET d == indicator_data.d
        period == IntOf(Get(d, "period", PyInt(14)))
        list(key) == ItemsOf(Get(ctx, key, PyList(<<>>)))
        first_failure(rs) ==
            IF \E j \in 1..Len(rs) : rs[j].exc # NoExc
            THEN rs[CHOOSE j \in 1..Len(rs) :
                        /\ rs[j].exc # NoExc
                        /\ \A i \in 1..(j - 1) : rs[i].exc = NoExc].exc
            ELSE NoExc
        result ==
            CASE name = "SMA" ->
                    IF first_failure(<<period, prices>>) # NoExc
                    THEN Raises(first_failure(<<period, prices>>))
                    ELSE compute_sma(prices.v, period.v)
              [] name = "EMA" ->
                    IF first_failure(<<period, prices>>) # NoExc
                    THEN Raises(first_failure(<<period, prices>>))
                    ELSE compute_ema(prices.v, period.v)
              [] name = "ATR" ->
                    IF first_failure(<<period, list("close"), list("high"), list("low")>>)
                           # NoExc
                    THEN Raises(first_failure(<<period, list("close"), list("high"),
                                                list("low")>>))
                    ELSE compute_atr(list("high").v, list("low").v, list("close").v, period.v)
              [] name = "BollingerBands" ->
                    IF first_failure(<<period, prices>>) # NoExc
                    THEN Raises(first_failure(<<period, prices>>))
                    ELSE compute_bollinger_bands(prices.v, period.v, FInt(2))
              [] name = "MACD" ->
                    LET fast == get_required_param(indicator_data, "fast")
                        slow == get_required_param(indicator_data, "slow")
                        signal == get_required_param(indicator_data, "signal")
                    IN  IF first_failure(<<fast, slow, signal, prices>>) # NoExc
                        THEN Raises(first_failure(<<fast, slow, signal, prices>>))
                        ELSE compute_macd(prices.v, fast.v.n, slow.v.n, signal.v.n)
              [] name = "RSI" ->
                    IF first_failure(<<period, prices>>) # NoExc
                    THEN Raises(first_failure(<<period, prices>>))
                    ELSE compute_rsi(prices.v, period.v)
              [] OTHER -> Raises("DSLError")
    IN  IF result.exc # NoExc THEN Raises("DSLError") ELSE result

\* an execute() that stores a placeholder under 'var' before computing
IndicatorExecute_store_first(node, ctx) ==
    LET name == get_required_param(node.indicator_data, "name")
        var_name == get_required_param(node.indicator_data, "var")
    IN  IF name.exc # NoExc THEN [exc |-> "DSLError", after |-> ctx]
        ELSE IF var_name.exc # NoExc THEN [exc |-> "DSLError", after |-> ctx]
        ELSE LET source == Get(node.indicator_data.d, "source", "close")
                 prices == ItemsOf(Get(ctx, source, PyList(<<>>)))
                 value == compute_indicator(node.indicator_data, name.v, prices, ctx)
             IN  IF value.exc # NoExc
                 THEN [exc |-> "DSLError", after |-> SetItem(ctx, var_name.v, None)]
                 ELSE [exc |-> NoExc, after |-> SetItem(ctx, var_name.v, Boxed(value.v))]
\* IndicatorInstruction.execute: name and var are required, the prices are
\* read from the context under 'source', the value is stored under 'var';
\* DSLError is re-raised, every other exception is converted to DSLError
IndicatorExecute(node, ctx) ==
    LET name == get_required_param(node.indicator_data, "name")
        var_name == get_required_param(node.indicator_data, "var")
    IN  IF name.exc # NoExc THEN [exc |-> "DSLError", after |-> ctx]
        ELSE IF var_name.exc # NoExc THEN [exc |-> "DSLError", after |-> ctx]
        ELSE LET source == Get(node.indicator_data.d, "source", "close")
                 prices == ItemsOf(Get(ctx, source, PyList(<<>>)))
                 value == compute_indicator(node.indicator_data, name.v, prices, ctx)
             IN  IF value.exc # NoExc THEN [exc |-> "DSLError", after |-> ctx]
                 ELSE [exc |-> NoExc, after |-> SetItem(ctx, var_name.v, Boxed(value.v))]

\* a Trade that puts its payload in front of the list
TradeExecute_insert_first(node, ctx) ==
    LET trades == IF "trades" \in DOMAIN ctx THEN ctx["trades"] ELSE PyList(<<>>)
    IN  IF trades.ty # "list"
        THEN [exc |-> "RuntimeError",
              after |-> ctx]
        ELSE [exc |-> NoExc,
              after |-> SetItem(ctx, "trades", PyList(<<node.trade_data>> \o trades.items))]
\* TradeInstruction.execute: setdefault("trades", []) then append; every
\* exception leaves as RuntimeError
TradeExecute(node, ctx) ==
    LET trades == IF "trades" \in DOMAIN ctx THEN ctx["trades"] ELSE PyList(<<>>)
    IN  IF trades.ty # "list"
        THEN [exc |-> "RuntimeError",
              after |-> ctx]
        ELSE [exc |-> NoExc,
              after |-> SetItem(ctx, "trades", PyList(Append(trades.items, node.trade_data)))]

\* OperationInstruction.execute: DSLError re-raised, anything else wrapped
OperationExecute(node, ctx) ==
    LET r == safe_exec_statement(node.operation, ctx)
    IN  [exc |-> IF r.exc # NoExc THEN "DSLError" ELSE NoExc, after |-> r.after]

\* an If that runs its block whatever the condition evaluated to
IfExecute_unconditional(node, ctx) ==
    LET r == safe_eval_expr(node.condition, ctx)
    IN  [exc |-> r.exc, taken |-> r.exc = NoExc, after |-> r.after]
\* IfInstruction.execute up to the decision: the exception of the condition
\* and whether the block is to run
IfExecute(node, ctx) ==
    LET r == safe_eval_expr(node.condition, ctx)
    IN  [exc |-> r.exc, taken |-> r.exc = NoExc /\ Truthy(r.v), after |-> r.after]

\* WaitInstruction.execute: time.sleep(duration), the context is not touched
WaitExecute(node, ctx) == [exc |-> NoExc, after |-> ctx]

-----------------------------------------------------------------------------
(* DSLInterpreter.run(): the depth-first walk, one execute() call per step. *)
(* todo holds the pending execute() calls in the order the call stack will *)
(* make them; each entry carries the node and its path from the root (the  *)
(* block of an If is its child 1).                                         *)

Pending(node, path) == [node |-> node, path |-> path]
\* one execute() call: the node's path and type, the exception it raised,
\* whether it went on to its children, and the context it was called with
LogEntry(path, t, exc, taken, ctx) ==
    [path |-> path, t |-> t, exc |-> exc, taken |-> taken, ctx |-> ctx]

\* a run() that lets the exception through as raised
RunWraps_reraise(exc) == exc
\* run() re-raises a DSLError and wraps every other Exception in a DSLError
RunWraps(exc) == IF exc = "DSLError" THEN exc ELSE "DSLError"

\* the interpreter state after an execute() call that raised exc
Fails(entry, exc, after) ==
    /\ status' = "failed"
    /\ runexc' = RunWraps(exc)
    /\ todo' = <<>>
    /\ context' = after
    /\ log' = Append(log, LogEntry(entry.path, entry.node.t, exc, FALSE, context))

RunStart ==
    /\ status = "idle"
    /\ status' = "running"
    /\ todo' = <<Pending(root_instruction, <<>>)>>
    /\ UNCHANGED <<root_instruction, context, runexc, log, peer>>
    /\ UNCHANGED <<parseVars, evalVars, callVars>>

\* children of a Compound in list order
CompoundChildren(entry) ==
    [j \in 1..Len(entry.node.instructions) |->
        Pending(entry.node.instructions[j], Append(entry.path, j))]

ExecCompound ==
    /\ status = "running" /\ todo # <<>> /\ Head(todo).node.t = "Compound"
    /\ todo' = CompoundChildren(Head(todo)) \o Tail(todo)
    /\ log' = Append(log, LogEntry(Head(todo).path, "Compound", NoExc, TRUE, context))
    /\ UNCHANGED <<root_instruction, context, status, runexc, peer>>
    /\ UNCHANGED <<parseVars, evalVars, callVars>>

ExecIf ==
    /\ status = "running" /\ todo # <<>> /\ Head(todo).node.t = "If"
    /\ LET e == Head(todo)
           r == IfExecute(e.node, context)
       IN  IF r.exc # NoExc THEN Fails(e, r.exc, r.after)
           ELSE /\ todo' = IF r.taken
                           THEN <<Pending(e.node.block, Append(e.path, 1))>> \o Tail(todo)
                           ELSE Tail(todo)
                /\ log' = Append(log, LogEntry(e.path, "If", NoExc, r.taken, context))
                /\ context' = r.after
                /\ UNCHANGED <<status, runexc>>
    /\ UNCHANGED <<root_instruction, peer>>
    /\ UNCHANGED <<parseVars, evalVars, callVars>>

\* a leaf instruction: its execute() either mutates the context or raises
ExecLeaf(t, r) ==
    LET e == Head(todo)
    IN  /\ IF r.exc # NoExc THEN Fails(e, r.exc, r.after)
           ELSE /\ todo' = Tail(todo)
                /\ log' = Append(log, LogEntry(e.path, t, NoExc, TRUE, context))
                /\ context' = r.after
                /\ UNCHANGED <<status, runexc>>
        /\ UNCHANGED <<root_instruction, peer>>
        /\ UNCHANGED <<parseVars, evalVars, callVars>>

ExecOperation ==
    /\ status = "running" /\ todo # <<>> /\ Head(todo).node.t = "Operation"
    /\ ExecLeaf("Operation", OperationExecute(Head(todo).node, context))

ExecTrade ==
    /\ status = "running" /\ todo # <<>> /\ Head(todo).node.t = "Trade"
    /\ ExecLeaf("Trade", TradeExecute(Head(todo).node, context))

ExecWait ==
    /\ status = "running" /\ todo # <<>> /\ Head(todo).node.t = "Wait"
    /\ ExecLeaf("Wait", WaitExecute(Head(todo).node, context))

ExecIndicator ==
    /\ status = "running" /\ todo # <<>> /\ Head(todo).node.t = "Indicator"
    /\ ExecLeaf("Indicator", IndicatorExecute(Head(todo).node, context))

\* root_instruction.execute returned: run() returns normally
RunReturn ==
    /\ status = "running" /\ todo = <<>>
    /\ status' = "done"
    /\ UNCHANGED <<root_instruction, context, todo, runexc, log, peer>>
    /\ UNCHANGED <<parseVars, evalVars, callVars>>

-----------------------------------------------------------------------------
(* Two DSLInterpreters whose run() calls are interleaved.  The variables    *)
(* root_instruction .. log are those of the interpreter that is taking      *)
(* steps; peer holds the other one, with its number id, until control      *)
(* passes to it.                                                           *)

\* no second interpreter has been constructed
NoPeer == [id |-> 0]

\* one Context for all interpreters
Context_new_shared(k) == 1
\* self.context = Context() in the constructor of interpreter k: a new
\* object with a variables dict of its own
Context_new(k) == k

\* the two interpreters hold one and the same Context object
SameContext == Context_new(1) = Context_new(2)

\* control passes to the other interpreter between two steps; the variables
\* dict each one works on is the dict of the Context object it holds
Switch ==
    /\ peer.id # 0
    /\ peer' = [id |-> 3 - peer.id, root_instruction |-> root_instruction,
                context |-> context, todo |-> todo, status |-> status,
                runexc |-> runexc, log |-> log]
    /\ root_instruction' = peer.root_instruction
    /\ context' = IF SameContext THEN context ELSE peer.context
    /\ todo' = peer.todo
    /\ status' = peer.status
    /\ runexc' = peer.runexc
    /\ log' = peer.log
    /\ UNCHANGED <<parseVars, evalVars, callVars>>

-----------------------------------------------------------------------------
(* Validator and parser operations on one raw program                      *)

NoResult == [st |-> "none"]

\* StrategyValidator(instructions_list) once more: rebinds the class-level
\* list to an empty one
NewValidator ==
    /\ calls < MaxCalls /\ ~fresh
    /\ errors' = <<>>
    /\ fresh' = TRUE
    /\ calls' = calls + 1
    /\ UNCHANGED <<instructions_list, vres, pres, scan>>
    /\ UNCHANGED <<evalVars, runVars, callVars>>

\* validator.validate()
Validate ==
    /\ calls < MaxCalls
    /\ LET r == validate(instructions_list, errors)
       IN  /\ errors' = r.errs
           /\ vres' = [st |-> IF r.exc = NoExc THEN "returned" ELSE "raised",
                       exc |-> r.exc, is_valid |-> r.is_valid, errs |-> r.errs,
                       fresh |-> fresh]
    /\ fresh' = FALSE
    /\ calls' = calls + 1
    /\ UNCHANGED <<instructions_list, pres, scan>>
    /\ UNCHANGED <<evalVars, runVars, callVars>>

\* DSLParser.parse(instructions_list)
Parse ==
    /\ calls < MaxCalls
    /\ LET r == parse(instructions_list, errors)
       IN  /\ errors' = r.errs
           /\ pres' = [st |-> IF r.exc = NoExc THEN "returned" ELSE "raised",
                       exc |-> r.exc, tree |-> r.compound, index |-> r.index]
    /\ fresh' = FALSE
    /\ calls' = calls + 1
    /\ UNCHANGED <<instructions_list, vres, scan>>
    /\ UNCHANGED <<evalVars, runVars, callVars>>

-----------------------------------------------------------------------------
(* The two scans record by record                                          *)

\* _validate_block and _parse_block while their loops run: frames is the
\* stack of the calls in progress (innermost last), i the cursor of the
\* innermost loop, visited the positions instructions[i] was read at
NoScan == [st |-> "idle"]
Frame(start, stop_at_end) == [start |-> start, stop_at_end |-> stop_at_end]
Scanning(op) ==
    [st |-> "running", op |-> op, exc |-> NoExc, i |-> 0,
     frames |-> <<Frame(0, FALSE)>>, visited |-> <<>>]
Scanned(sc, errs) == [scan |-> sc, errs |-> errs]

InnerFrame(sc) == sc.frames[Len(sc.frames)]
\* instr = instructions[i]
Read(sc) == [sc EXCEPT !.visited = Append(@, sc.i)]
\* an exception leaves every call in progress
ScanRaise(sc, e) == [sc EXCEPT !.st = "raised", !.exc = e]
\* i += 1
Advance(sc) == [sc EXCEPT !.i = @ + 1]
\* the recursive call on (instructions, i + 1, stop_at_end=True)
Enter(sc) == [sc EXCEPT !.frames = Append(@, Frame(sc.i + 1, TRUE)), !.i = @ + 1]

\* the innermost call returns index: the cursor of its caller becomes index.
\* The outermost call returns to validate(), which returns, or to parse(),
\* which compares index with the length n of the list.
Leave(sc, index, n) ==
    IF Len(sc.frames) > 1
    THEN [sc EXCEPT !.frames = SubSeq(@, 1, Len(@) - 1), !.i = index]
    ELSE IF sc.op = "parse" /\ index # n
         THEN [sc EXCEPT !.frames = <<>>, !.i = index, !.st = "raised", !.exc = "DSLError"]
    ELSE [sc EXCEPT !.frames = <<>>, !.i = index, !.st = "returned"]

\* the static check both scans make on the record at position i
StaticCheck(instr, i) ==
    IF instr.key = "if" THEN validate_if(instr, i)
    ELSE IF instr.key = "operation" THEN validate_operation(instr, i)
    ELSE IF instr.key = "indicator" THEN validate_indicator(instr, i)
    ELSE IF instr.key = "trade" THEN validate_trade(instr, i)
    ELSE IF instr.key = "wait" THEN validate_wait(instr, i)
    ELSE Checked(<<>>)

\* an "end" outside any block that leaves the cursor where it is
unexpected_end_stay(sc, errs) ==
    Scanned(sc, Append(errs, Err("unexpected-end", sc.i, "")))
\* the validator's "end" outside any block: append_error, then i += 1
unexpected_end(sc, errs) ==
    Scanned(Advance(sc), Append(errs, Err("unexpected-end", sc.i, "")))

\* one turn of the while loop of _validate_block on the record instr
validate_record(sc, instr, errs, n) ==
    IF instr.ty # "dict" THEN Scanned(ScanRaise(Read(sc), "TypeError"), errs)
    ELSE IF instr.key = "end" THEN
        IF InnerFrame(sc).stop_at_end THEN Scanned(Leave(Read(sc), sc.i + 1, n), errs)
        ELSE unexpected_end(Read(sc), errs)
    ELSE IF StaticCheck(instr, sc.i).exc # NoExc
         THEN Scanned(ScanRaise(Read(sc), StaticCheck(instr, sc.i).exc),
                      errs \o StaticCheck(instr, sc.i).errs)
    ELSE IF instr.key = "if"
         THEN Scanned(Enter(Read(sc)), errs \o StaticCheck(instr, sc.i).errs)
    ELSE Scanned(Advance(Read(sc)), errs \o StaticCheck(instr, sc.i).errs)

\* the exception of the node constructor the parser calls for the record
ConstructorExc(instr) ==
    IF instr.key = "wait" THEN WaitInstruction(instr.val).exc ELSE NoExc

\* one turn of the while loop of _parse_block on the record instr
parse_record(sc, instr, errs, n) ==
    IF instr.ty # "dict" THEN Scanned(ScanRaise(Read(sc), "TypeError"), errs)
    ELSE IF instr.key = "end" THEN
        IF InnerFrame(sc).stop_at_end THEN Scanned(Leave(Read(sc), sc.i + 1, n), errs)
        ELSE Scanned(ScanRaise(Read(sc), "DSLError"), errs)
    ELSE IF StaticCheck(instr, sc.i).exc # NoExc
         THEN Scanned(ScanRaise(Read(sc), StaticCheck(instr, sc.i).exc),
                      errs \o StaticCheck(instr, sc.i).errs)
    ELSE IF ConstructorExc(instr) # NoExc
         THEN Scanned(ScanRaise(Read(sc), ConstructorExc(instr)),
                      errs \o StaticCheck(instr, sc.i).errs)
    ELSE IF instr.key = "if"
         THEN Scanned(Enter(Read(sc)), errs \o StaticCheck(instr, sc.i).errs)
    ELSE Scanned(Advance(Read(sc)), errs \o StaticCheck(instr, sc.i).errs)

\* the loop of _validate_block has run off the list
validate_exit(sc, errs, n) ==
    IF InnerFrame(sc).stop_at_end
    THEN Scanned(Leave(sc, sc.i, n), Append(errs, Err("unclosed-if", InnerFrame(sc).start, "")))
    ELSE Scanned(Leave(sc, sc.i, n), errs)

\* the loop of _parse_block has run off the list
parse_exit(sc, errs, n) ==
    IF InnerFrame(sc).stop_at_end THEN Scanned(ScanRaise(sc, "DSLError"), errs)
    ELSE Scanned(Leave(sc, sc.i, n), errs)

\* validator.validate() is called
ValidateBegin ==
    /\ scan.st = "idle" /\ calls < MaxCalls
    /\ scan' = Scanning("validate")
    /\ calls' = calls + 1
    /\ fresh' = FALSE
    /\ UNCHANGED <<instructions_list, errors, vres, pres>>
    /\ UNCHANGED <<evalVars, runVars, callVars>>

\* DSLParser.parse(instructions_list) is called
ParseBegin ==
    /\ scan.st = "idle" /\ calls < MaxCalls
    /\ scan' = Scanning("parse")
    /\ calls' = calls + 1
    /\ fresh' = FALSE
    /\ UNCHANGED <<instructions_list, errors, vres, pres>>
    /\ UNCHANGED <<evalVars, runVars, callVars>>

\* the innermost loop handles the record under its cursor
ScanRecord ==
    /\ scan.st = "running" /\ scan.i < Len(instructions_list)
    /\ LET instr == instructions_list[scan.i + 1]
           r == IF scan.op = "validate"
                THEN validate_record(scan, instr, errors, Len(instructions_list))
                ELSE parse_record(scan, instr, errors, Len(instructions_list))
       IN  scan' = r.scan /\ errors' = r.errs
    /\ UNCHANGED <<instructions_list, fresh, calls, vres, pres>>
    /\ UNCHANGED <<evalVars, runVars, callVars>>

\* the innermost loop ends: its cursor is not below the length of the list
ScanExit ==
    /\ scan.st = "running" /\ scan.i >= Len(instructions_list)
    /\ LET r == IF scan.op = "validate"
                THEN validate_exit(scan, errors, Len(instructions_list))
                ELSE parse_exit(scan, errors, Len(instructions_list))
       IN  scan' = r.scan /\ errors' = r.errs
    /\ UNCHANGED <<instructions_list, fresh, calls, vres, pres>>
    /\ UNCHANGED <<evalVars, runVars, callVars>>

-----------------------------------------------------------------------------
(* Evaluator operations on one text and one mapping                        *)

SafeEvalExpr ==
    /\ evres = NoResult
    /\ LET r == safe_eval_expr(evinput, evctx)
       IN  /\ evres' = [st |-> "eval", exc |-> r.exc, v |-> r.v, seen |-> r.seen,
                        before |-> evctx]
           /\ evctx' = r.after
    /\ UNCHANGED evinput
    /\ UNCHANGED <<parseVars, runVars, callVars>>

SafeExecStatement ==
    /\ evres = NoResult
    /\ LET r == safe_exec_statement(evinput, evctx)
       IN  /\ evres' = [st |-> "exec", exc |-> r.exc, v |-> r.v, seen |-> r.seen,
                        before |-> evctx]
           /\ evctx' = r.after
    /\ UNCHANGED evinput
    /\ UNCHANGED <<parseVars, runVars, callVars>>

-----------------------------------------------------------------------------
(* Calls of the functions of dsl/utils.py, one call on one argument list   *)

\* what the caller observes: the exception, or the value returned
Outcome(r) ==
    [st |-> IF r.exc = NoExc THEN "returned" ELSE "raised", exc |-> r.exc, v |-> r.v]

Called(fn) == ret = NoResult /\ call # None /\ call.fn = fn

ComputeSma ==
    /\ Called("compute_sma")
    /\ ret' = Outcome(compute_sma(call.prices, call.period))
    /\ UNCHANGED <<call, parseVars, evalVars, runVars>>

ComputeEma ==
    /\ Called("compute_ema")
    /\ ret' = Outcome(compute_ema(call.prices, call.period))
    /\ UNCHANGED <<call, parseVars, evalVars, runVars>>

ComputeEmaSeries ==
    /\ Called("compute_ema_series")
    /\ ret' = Outcome(compute_ema_series(call.prices, call.period))
    /\ UNCHANGED <<call, parseVars, evalVars, runVars>>

ComputeAtr ==
    /\ Called("compute_atr")
    /\ ret' = Outcome(compute_atr(call.highs, call.lows, call.closes, call.period))
    /\ UNCHANGED <<call, parseVars, evalVars, runVars>>

ComputeBollingerBands ==
    /\ Called("compute_bollinger_bands")
    /\ ret' = Outcome(compute_bollinger_bands(call.prices, call.period, call.multiplier))
    /\ UNCHANGED <<call, parseVars, evalVars, runVars>>

ComputeMacd ==
    /\ Called("compute_macd")
    /\ ret' = Outcome(compute_macd(call.prices, call.fast, call.slow, call.signal))
    /\ UNCHANGED <<call, parseVars, evalVars, runVars>>

ComputeRsi ==
    /\ Called("compute_rsi")
    /\ ret' = Outcome(compute_rsi(call.prices, call.period))
    /\ UNCHANGED <<call, parseVars, evalVars, runVars>>

\* WaitInstruction(duration): the node is what the caller gets
NewWaitInstruction ==
    /\ Called("WaitInstruction")
    /\ LET w == WaitInstruction(call.duration)
       IN  ret' = Outcome([exc |-> w.exc, v |-> w.node])
    /\ UNCHANGED <<call, parseVars, evalVars, runVars>>

\* an update that keeps the value of a key the context already holds
ContextUpdate_keep_existing(variables, data) ==
    [k \in DOMAIN variables \cup DOMAIN data |->
        IF k \in DOMAIN variables THEN variables[k] ELSE data[k]]
\* Context.update: self.variables.update(data)
ContextUpdate(variables, data) ==
    [k \in DOMAIN variables \cup DOMAIN data |->
        IF k \in DOMAIN data THEN data[k] ELSE variables[k]]

\* DSLInterpreter.load_market_data: source is what get_market_data did (the
\* exception it raised, or the value it returned); every exception, of the
\* source or of the update with a value that is no mapping, leaves as
\* DSLError
load_market_data(source, variables) ==
    IF source.exc # NoExc THEN [exc |-> "DSLError", after |-> variables]
    ELSE IF source.v.ty # "dict" THEN [exc |-> "DSLError", after |-> variables]
    ELSE [exc |-> NoExc, after |-> ContextUpdate(variables, source.v.d)]

\* interpreter.load_market_data(symbol, interval, limit)
LoadMarketData ==
    /\ Called("load_market_data")
    /\ LET r == load_market_data(call.source, context)
       IN  /\ context' = r.after
           /\ ret' = [st |-> IF r.exc = NoExc THEN "returned" ELSE "raised",
                      exc |-> r.exc, v |-> None, before |-> context]
    /\ UNCHANGED <<call, root_instruction, todo, status, runexc, log, peer, parseVars, evalVars>>

-----------------------------------------------------------------------------
(* The inputs of the model                                                 *)

Zero == Constant(PyInt(0))
One == Constant(PyInt(1))

\* a text that is an expression: it parses in both modes
ExprText(src, e) == PyText(src, Parsed(e), Parsed(<<Expr(e)>>))
\* a text that is a statement: it parses in mode "exec" only
StmtText(src, body) == PyText(src, SyntaxError, Parsed(body))

TextXPos == ExprText("x > 0", Compare(Name("x"), <<"Gt">>, <<Zero>>))
TextDec == StmtText("x = x - 1", <<Assign(<<Name("x")>>, BinOp(Name("x"), "Sub", One))>>)
TextAug == StmtText("x += 1", <<AugAssign(Name("x"), "Add", One)>>)
TextModY == StmtText("x = 1 % y", <<Assign(<<Name("x")>>, BinOp(One, "Mod", Name("y")))>>)
TextBad == PyText("x >", SyntaxError, SyntaxError)

IfXPos == Record("if", TextXPos)
End == Record("end", PyBool(TRUE))
OpDec == Record("operation", TextDec)
OpModY == Record("operation", TextModY)
TradeBuy == Record("trade", PyDict([action |-> "buy", symbol |-> "BTC", quantity |-> PyInt(1)]))
TradeSell == Record("trade", PyDict([action |-> "sell", symbol |-> "BTC", quantity |-> PyInt(2)]))
TradeNone == Record("trade", None)
Wait3s == Record("wait", PyChars(<<"3", "s">>))
WaitHuge == Record("wait", PyBigInt(1, 400))
WaitBadNumber == Record("wait", PyChars(<<"x", "s">>))
Unknown == Record("foo", None)

\* records the validator/parser programs are made of
ParseAlphabet ==
    <<IfXPos, End, TradeBuy, TradeNone, WaitHuge, WaitBadNumber, Unknown,
      NonMappingRecord>>

\* records the programs run by the interpreter are made of
RunAlphabet == <<IfXPos, End, OpDec, OpModY, TradeBuy, TradeSell, Wait3s>>

\* every list of at most n records of the alphabet
Programs(alphabet, n) ==
    UNION {{[j \in 1..len |-> alphabet[f[j]]] : f \in [1..len -> 1..Len(alphabet)]} :
           len \in 0..n}

\* Context.variables when run() starts
RunContexts ==
    {[x |-> PyInt(0)],
     [x |-> PyInt(1), trades |-> PyList(<<TradeSell.val>>)],
     [x |-> PyInt(1), y |-> PyInt(0), trades |-> PyInt(5)]}

\* expressions: operands, then one more level of operators per depth
Atoms ==
    {Zero, One, Name("x"), Name("u"), Attribute(Name("x"), "real"),
     Call(Name("abs"), <<One>>, <<>>)}

\* the operators of the grammar applied to a and b
Forms(a, b) ==
    {BoolOp("And", <<a, b>>), BoolOp("Or", <<a, b>>), Compare(a, <<"Gt">>, <<b>>),
     BinOp(a, "Mod", b), Call(Name("implies"), <<a, b>>, <<>>)}

\* forms with a third operand: a chained comparison, a ** argument, an
\* operator outside the grammar, a lambda, a subscript
Forms3(a) ==
    {Compare(Zero, <<"Gt", "Gt">>, <<One, a>>), Compare(One, <<"Gt", "Gt">>, <<Zero, a>>),
     Call(Name("implies"), <<One, Zero>>, <<keyword("", a)>>),
     Call(Name("implies"), <<One>>, <<keyword("y", a)>>),
     Call(a, <<One, Zero>>, <<>>),
     UnaryOp("Not", a), UnaryOp("USub", a), UnaryOp("Invert", a),
     BinOp(a, "BitAnd", One), Lambda(a), Subscript(a, Zero),
     BoolOp("And", <<One, a, Name("u")>>), BoolOp("Or", <<Zero, a, Name("u")>>)}

\* e as an operand that is skipped, as one that is reached, and as a first
\* operand
Nest(e) ==
    {BoolOp("And", <<Zero, e>>), BoolOp("Or", <<One, e>>), BoolOp("And", <<One, e>>),
     Compare(e, <<"Gt">>, <<Zero>>), BinOp(One, "Mod", e)}

RECURSIVE Exprs(_)
Exprs(d) ==
    IF d = 0 THEN Atoms
    ELSE IF d = 1
         THEN Atoms \cup UNION {Forms(a, b) : a \in Atoms, b \in Atoms}
                    \cup UNION {Forms3(a) : a \in Atoms}
    ELSE Exprs(d - 1) \cup UNION {Nest(e) : e \in Exprs(d - 1)}

\* the texts handed to the evaluator: each expression as a condition, as the
\* right-hand side of an assignment and as the argument of print, and texts
\* that are no single simple statement
EvalInputs(depth) ==
    {ExprText("e", e) : e \in Exprs(depth)}
    \cup {StmtText("t = e", <<Assign(<<Name("t")>>, e)>>) : e \in Exprs(depth)}
    \cup {ExprText("print(e)", Call(Name("print"), <<e>>, <<>>)) : e \in Exprs(1)}
    \cup {TextBad, TextAug, TextDec, PyInt(5),
          StmtText("x = 1; t = 2", <<Assign(<<Name("x")>>, One), Assign(<<Name("t")>>, One)>>),
          StmtText("x, t = 1", <<Assign(<<TupleNode(<<Name("x"), Name("t")>>)>>, One)>>),
          StmtText("x = t = 1", <<Assign(<<Name("x"), Name("t")>>, One)>>),
          ExprText("print(x, foo=1)", Call(Name("print"), <<Name("x")>>, <<keyword("foo", One)>>))}

EvalContexts == {[x |-> PyInt(0)], [x |-> PyInt(1)], [x |-> PyStr("a"), t |-> PyInt(7)]}

-----------------------------------------------------------------------------
(* Specifications                                                          *)

\* a StrategyValidator has just been constructed for instructions_list
ParseIdle ==
    /\ errors = <<>> /\ fresh = TRUE /\ calls = 0
    /\ vres = NoResult /\ pres = NoResult /\ scan = NoScan
EvalIdle == evinput = None /\ evctx = <<>> /\ evres = NoResult
CallIdle == call = None /\ ret = NoResult
RunIdle ==
    /\ root_instruction = CompoundInstruction(<<>>) /\ context = <<>> /\ todo = <<>>
    /\ status = "idle" /\ runexc = NoExc /\ log = <<>> /\ peer = NoPeer

\* validator and parser on every program of the alphabet
InitParse ==
    /\ instructions_list \in Programs(ParseAlphabet, MaxProgLen)
    /\ ParseIdle /\ EvalIdle /\ RunIdle /\ CallIdle

NextParse == NewValidator \/ Validate \/ Parse

SpecParse == InitParse /\ [][NextParse]_vars

\* the evaluator on every text and mapping
InitEval ==
    /\ evinput \in EvalInputs(MaxDepth) /\ evctx \in EvalContexts /\ evres = NoResult
    /\ instructions_list = <<>> /\ ParseIdle /\ RunIdle /\ CallIdle

NextEval == SafeEvalExpr \/ SafeExecStatement

SpecEval == InitEval /\ [][NextEval]_vars

\* the interpreter on the tree of every program the parser accepts
InitRun ==
    /\ instructions_list \in Programs(RunAlphabet, MaxRunLen)
    /\ parse(instructions_list, <<>>).exc = NoExc
    /\ root_instruction = parse(instructions_list, <<>>).compound
    /\ context \in RunContexts
    /\ todo = <<>> /\ status = "idle" /\ runexc = NoExc /\ log = <<>> /\ peer = NoPeer
    /\ ParseIdle /\ EvalIdle /\ CallIdle

NextRun == RunStart \/ ExecCompound \/ ExecIf \/ ExecOperation \/ ExecTrade \/ ExecWait
           \/ RunReturn

SpecRun == InitRun /\ [][NextRun]_vars

\* the records and the contexts of the runs followed to their end
FairAlphabet == <<IfXPos, End, OpDec, OpModY, TradeBuy, Wait3s>>
FairContexts == {[x |-> PyInt(0)], [x |-> PyInt(1)]}

InitFair ==
    /\ instructions_list \in Programs(FairAlphabet, MaxRunLen)
    /\ parse(instructions_list, <<>>).exc = NoExc
    /\ root_instruction = parse(instructions_list, <<>>).compound
    /\ context \in FairContexts
    /\ todo = <<>> /\ status = "idle" /\ runexc = NoExc /\ log = <<>> /\ peer = NoPeer
    /\ ParseIdle /\ EvalIdle /\ CallIdle

\* run() is one synchronous call: a pending execute() is made
FairSpecRun == InitFair /\ [][NextRun]_vars /\ WF_vars(NextRun)

\* the price lists and periods handed to the indicator functions
MaxPrices == 4      \* longest price list
MaxPeriod == 3      \* largest period (window) of an indicator
PriceValues == {1, 2, 4}

RECURSIVE Lists(_, _)
Lists(S, n) ==
    IF n = 0 THEN {<<>>}
    ELSE LET shorter == Lists(S, n - 1)
         IN  shorter \cup {Append(xs, x) : xs \in shorter, x \in S}

PriceLists(n) == {[j \in 1..Len(xs) |-> FInt(xs[j])] : xs \in Lists(PriceValues, n)}
Periods == 0..MaxPeriod

\* highs one above and lows one below the closes, each possibly a bar short
OneShort(xs, short) == IF short THEN FirstN(xs, Len(xs) - 1) ELSE xs

AtrCalls(n) ==
    {[fn |-> "compute_atr",
      highs |-> OneShort([j \in 1..Len(cs) |-> FAdd(cs[j], FInt(1))], hs),
      lows |-> OneShort([j \in 1..Len(cs) |-> FSub(cs[j], FInt(1))], ls),
      closes |-> cs, period |-> p] :
        cs \in PriceLists(n), p \in Periods, hs \in BOOLEAN, ls \in BOOLEAN}

UtilsCalls(n) ==
    {[fn |-> f, prices |-> xs, period |-> p] :
        f \in {"compute_sma", "compute_ema", "compute_ema_series", "compute_rsi"},
        xs \in PriceLists(n), p \in Periods}
    \cup AtrCalls(n)
    \cup {[fn |-> "compute_bollinger_bands", prices |-> xs, period |-> p,
           multiplier |-> FInt(2)] : xs \in PriceLists(n), p \in Periods}
    \cup {[fn |-> "compute_macd", prices |-> xs, fast |-> f, slow |-> s, signal |-> g] :
            xs \in PriceLists(n), f \in Periods, s \in Periods, g \in Periods}

\* the indicator functions on every price list and period
InitUtils ==
    /\ call \in UtilsCalls(MaxPrices) /\ ret = NoResult
    /\ instructions_list = <<>> /\ ParseIdle /\ EvalIdle /\ RunIdle

NextUtils ==
    ComputeSma \/ ComputeEma \/ ComputeEmaSeries \/ ComputeAtr \/ ComputeBollingerBands
    \/ ComputeMacd \/ ComputeRsi

SpecUtils == InitUtils /\ [][NextUtils]_vars

\* indicator payloads: every subset of the keys, each key with one or two
\* values
IndicatorKeys == {"name", "var", "period", "source", "fast", "slow", "signal"}
IndicatorNames == SUPPORTED_INDICATORS \cup {"WMA"}

IndicatorPayloads ==
    {[k \in keys |->
        CASE k = "name" -> nm
          [] k = "var" -> "v"
          [] k = "period" -> PyInt(2)
          [] k = "source" -> src
          [] k = "slow" -> PyInt(sl)
          [] OTHER -> PyInt(1)] :
        keys \in SUBSET IndicatorKeys, nm \in IndicatorNames,
        src \in {"close", "open"}, sl \in {1, 4}}

Prices(xs) == PyList([j \in 1..Len(xs) |-> FInt(xs[j])])

\* contexts: full market data, market data too short for any window with
\* 'v' already set, and no market data
IndicatorContexts ==
    {[close |-> Prices(<<1, 2, 4, 4>>), high |-> Prices(<<2, 4, 5, 5>>),
      low |-> Prices(<<1, 1, 2, 4>>), x |-> PyInt(1)],
     [close |-> Prices(<<1>>), open |-> Prices(<<1, 2, 4>>), v |-> PyInt(7)],
     [x |-> PyInt(1)]}

\* the interpreter on a tree of one indicator instruction
InitIndicator ==
    /\ root_instruction \in
          {CompoundInstruction(<<IndicatorInstruction(PyDict(d))>>) : d \in IndicatorPayloads}
    /\ context \in IndicatorContexts
    /\ todo = <<>> /\ status = "idle" /\ runexc = NoExc /\ log = <<>> /\ peer = NoPeer
    /\ instructions_list = <<>> /\ ParseIdle /\ EvalIdle /\ CallIdle

NextIndicator == RunStart \/ ExecCompound \/ ExecIndicator \/ RunReturn

SpecIndicator == InitIndicator /\ [][NextIndicator]_vars

\* the durations handed to WaitInstruction: every text over WaitChars up to
\* MaxWaitText characters, small and huge numbers, NaN, and values that are
\* neither numbers nor texts
MaxWaitText == 4    \* longest duration text
WaitChars == {"0", "3", "-", "s", "m", "H", "x", "n", "a"}

WaitDurations(len) ==
    {PyChars(cs) : cs \in Lists(WaitChars, len)}
    \cup {PyInt(n) : n \in (0 - 3)..3}
    \cup {PyBigInt(1, 400), PyNaN, PyBool(TRUE), None, PyDict(<<>>), PyList(<<>>)}

InitWait ==
    /\ call \in {[fn |-> "WaitInstruction", duration |-> d] : d \in WaitDurations(MaxWaitText)}
    /\ ret = NoResult
    /\ instructions_list = <<>> /\ ParseIdle /\ EvalIdle /\ RunIdle

NextWait == NewWaitInstruction

SpecWait == InitWait /\ [][NextWait]_vars

\* indicator records with keys missing, and the programs of the validator
\* run on them
MaxValLen == 3      \* longest program of indicator records
IndSma == Record("indicator", PyDict([name |-> "SMA"]))
IndMacd == Record("indicator", PyDict([name |-> "MACD", fast |-> PyInt(1), var |-> "v"]))
IndRsi ==
    Record("indicator", PyDict([name |-> "RSI", period |-> PyInt(2), source |-> "close",
                                var |-> "v"]))
IndWma == Record("indicator", PyDict([name |-> "WMA"]))
IndNoName == Record("indicator", PyDict([period |-> PyInt(2)]))

ValidateAlphabet == <<IfXPos, End, IndSma, IndMacd, IndRsi, IndWma, IndNoName, TradeNone>>

InitValidate ==
    /\ instructions_list \in Programs(ValidateAlphabet, MaxValLen)
    /\ ParseIdle /\ EvalIdle /\ RunIdle /\ CallIdle

SpecValidate == InitValidate /\ [][NextParse]_vars

\* the mappings a context holds and a market-data source returns: every
\* choice of values for every subset of the keys
MarketKeys == {"close", "high", "x"}
MarketValues == {PyInt(1), PyList(<<FInt(1), FInt(2)>>)}
MarketMappings == UNION {[keys -> MarketValues] : keys \in SUBSET MarketKeys}

\* what get_market_data does: it returns a mapping or None, or it raises
SourceOutcomes ==
    {Returns(PyDict(d)) : d \in MarketMappings}
    \cup {Returns(None), Raises("DSLError"), Raises("ConnectionError")}

InitLoad ==
    /\ root_instruction = CompoundInstruction(<<>>)
    /\ context \in MarketMappings
    /\ call \in {[fn |-> "load_market_data", source |-> s] : s \in SourceOutcomes}
    /\ ret = NoResult
    /\ todo = <<>> /\ status = "idle" /\ runexc = NoExc /\ log = <<>> /\ peer = NoPeer
    /\ instructions_list = <<>> /\ ParseIdle /\ EvalIdle

NextLoad == LoadMarketData

SpecLoad == InitLoad /\ [][NextLoad]_vars

\* every text of at most MaxInfixLen lexemes over the names a and b, the blank
\* and one infix symbol; two names around one symbol with none, one or two
\* blanks on either side; and texts with two infix symbols
MaxInfixLen == 4
Blanks == {<<>>, <<" ">>, <<" ", " ">>}
SpacedTexts ==
    {<<x>> \o before \o <<s>> \o behind \o <<y>> :
        x \in {"a", "b"}, y \in {"a", "b"}, s \in InfixSymbols,
        before \in Blanks, behind \in Blanks}
TwoSymbolTexts ==
    {<<"a", " ", s, " ", y, " ", t, " ", "b">> :
        y \in {"a", "b"}, s \in InfixSymbols, t \in InfixSymbols}
    \cup {<<"a", s, "b", " ", t, " ", "a">> : s \in InfixSymbols, t \in InfixSymbols}
InfixTexts(n) ==
    {PyChars(cs) : cs \in UNION {Lists({"a", "b", " ", s}, n) : s \in InfixSymbols}
                             \cup SpacedTexts \cup TwoSymbolTexts}

\* mappings that bind a and b to booleans
BooleanContexts == {[a |-> PyBool(x), b |-> PyBool(y)] : x \in BOOLEAN, y \in BOOLEAN}

\* the evaluator on every infix text and every boolean mapping
InitInfix ==
    /\ evinput \in InfixTexts(MaxInfixLen) /\ evctx \in BooleanContexts /\ evres = NoResult
    /\ instructions_list = <<>> /\ ParseIdle /\ RunIdle /\ CallIdle

SpecInfix == InitInfix /\ [][NextEval]_vars

\* "if" records whose condition is a malformed text and a number
IfBad == Record("if", TextBad)
IfNumber == Record("if", PyInt(5))

ConditionAlphabet == <<IfXPos, IfBad, IfNumber, End, OpDec>>

\* validator and parser on programs with well-formed and ill-formed conditions
InitCondition ==
    /\ instructions_list \in Programs(ConditionAlphabet, MaxProgLen)
    /\ ParseIdle /\ EvalIdle /\ RunIdle /\ CallIdle

SpecCondition == InitCondition /\ [][NextParse]_vars

\* records of the programs scanned turn by turn
ScanAlphabet == <<IfXPos, End, TradeBuy, TradeNone, Unknown, WaitHuge>>

\* one validate() or one parse() on every program, followed to its end
InitScan ==
    /\ instructions_list \in Programs(ScanAlphabet, MaxProgLen)
    /\ ParseIdle /\ EvalIdle /\ RunIdle /\ CallIdle

NextScan == ValidateBegin \/ ParseBegin \/ ScanRecord \/ ScanExit

\* validate() and parse() are synchronous calls: a loop that can take its
\* next turn takes it
FairSpecScan == InitScan /\ [][NextScan]_vars /\ WF_vars(NextScan)

\* records, contexts and bound of the programs run by two interpreters
MaxPairLen == 3
PairAlphabet == <<IfXPos, End, OpDec, OpModY, TradeBuy>>
PairContexts == {[x |-> PyInt(0)], [x |-> PyInt(1)], [x |-> PyInt(2), y |-> PyInt(0)]}
\* the trees the second interpreter is built on, besides the first one's
PeerPrograms == {<<OpDec>>, <<IfXPos, TradeSell, End>>}

\* two interpreters, each constructed with a Context of its own, on one tree
\* or on two
InitPair ==
    /\ instructions_list \in Programs(PairAlphabet, MaxPairLen)
    /\ parse(instructions_list, <<>>).exc = NoExc
    /\ root_instruction = parse(instructions_list, <<>>).compound
    /\ context \in PairContexts
    /\ todo = <<>> /\ status = "idle" /\ runexc = NoExc /\ log = <<>>
    /\ \E root \in {root_instruction} \cup {parse(p, <<>>).compound : p \in PeerPrograms},
          ctx \in PairContexts :
          peer = [id |-> 2, root_instruction |-> root, context |-> ctx, todo |-> <<>>,
                  status |-> "idle", runexc |-> NoExc, log |-> <<>>]
    /\ ParseIdle /\ EvalIdle /\ CallIdle

NextPair ==
    RunStart \/ ExecCompound \/ ExecIf \/ ExecOperation \/ ExecTrade \/ RunReturn
    \/ Switch

SpecPair == InitPair /\ [][NextPair]_vars

-----------------------------------------------------------------------------
(* Reference bracket matching on the raw program (1-based positions)       *)

IsIf(r) == r.ty = "dict" /\ r.key = "if"
IsEnd(r) == r.ty = "dict" /\ r.key = "end"

\* number of if-blocks open after the first k records; an "end" met with no
\* block open leaves the count at zero
RECURSIVE DepthAfter(_, _)
DepthAfter(prog, k) ==
    IF k = 0 THEN 0
    ELSE LET d == DepthAfter(prog, k - 1)
         IN  IF IsIf(prog[k]) THEN d + 1
             ELSE IF IsEnd(prog[k]) /\ d > 0 THEN d - 1
             ELSE d

\* an "end" met while no if-block is open
StrayEnd(prog, k) == IsEnd(prog[k]) /\ DepthAfter(prog, k - 1) = 0

WellBracketed(prog) ==
    /\ DepthAfter(prog, Len(prog)) = 0
    /\ \A k \in 1..Len(prog) : ~StrayEnd(prog, k)

HasUnclosedIf(prog) == DepthAfter(prog, Len(prog)) > 0

\* the "end" matching the "if" at position lo: the first later position at
\* which the depth is back to what it was before the "if"
MatchingEnd(prog, lo) ==
    CHOOSE j \in (lo + 1)..Len(prog) :
        /\ DepthAfter(prog, j) = DepthAfter(prog, lo - 1)
        /\ \A l \in lo..(j - 1) : DepthAfter(prog, l) > DepthAfter(prog, lo - 1)

\* the record's payload takes its instruction through the payload check and
\* the node constructor without an exception
RecordBuilds(r) ==
    /\ r.ty = "dict"
    /\ r.key \in {"indicator", "trade"} => r.val.ty = "dict"
    /\ r.key = "wait" => WaitInstruction(r.val).exc = NoExc

\* the nodes of the records at positions lo..hi of a well-bracketed stretch
RECURSIVE RefNodes(_, _, _)
RefNodes(prog, lo, hi) ==
    IF lo > hi THEN <<>>
    ELSE LET r == prog[lo]
         IN  IF IsIf(r) THEN
                 LET m == MatchingEnd(prog, lo)
                 IN  <<IfInstruction(r.val, CompoundInstruction(RefNodes(prog, lo + 1, m - 1)))>>
                     \o RefNodes(prog, m + 1, hi)
             ELSE IF r.key = "operation"
                  THEN <<OperationInstruction(r.val)>> \o RefNodes(prog, lo + 1, hi)
             ELSE IF r.key = "indicator"
                  THEN <<IndicatorInstruction(r.val)>> \o RefNodes(prog, lo + 1, hi)
             ELSE IF r.key = "trade"
                  THEN <<TradeInstruction(r.val)>> \o RefNodes(prog, lo + 1, hi)
             ELSE IF r.key = "wait"
                  THEN <<WaitInstruction(r.val).node>> \o RefNodes(prog, lo + 1, hi)
             ELSE RefNodes(prog, lo + 1, hi)

RefTree(prog) == CompoundInstruction(RefNodes(prog, 1, Len(prog)))

\* every record of the list is a single-key mapping
AllMappings(prog) == \A k \in 1..Len(prog) : prog[k].ty = "dict"

HasError(errs, kind) == \E j \in 1..Len(errs) : errs[j].kind = kind

\* validate() was called on the freshly constructed validator
ValidatedFresh == vres.st # "none" /\ vres.fresh
Parsed_ == pres.st # "none"

-----------------------------------------------------------------------------
(* Claims about the validator and the parser (SpecParse)                   *)

\* C1: a program that a freshly constructed validator reports as valid,
\* (True, []), is parsed by DSLParser.parse without any exception.
C1_ValidProgramParses ==
    (ValidatedFresh /\ vres.st = "returned" /\ vres.is_valid /\ Parsed_)
        => pres.st = "returned"

C5_UnclosedIfRejected ==
    (AllMappings(instructions_list) /\ HasUnclosedIf(instructions_list)) =>
        /\ ValidatedFresh =>
              (vres.st = "returned" /\ ~vres.is_valid /\ HasError(vres.errs, "unclosed-if"))
        /\ Parsed_ => (pres.st = "raised" /\ pres.exc = "DSLError")

\* an "end" at position k that both scans reach with no if-block open: no
\* earlier record ends the scan
ReachedStrayEnd(prog, k) ==
    /\ StrayEnd(prog, k)
    /\ \A j \in 1..(k - 1) : RecordBuilds(prog[j]) /\ ~StrayEnd(prog, j)

\* C6: an "end" reached while no if-block is open makes validate() return
\* is_valid False with an unexpected-end error and makes parse raise DSLError.
C6_UnexpectedEndRejected ==
    (/\ AllMappings(instructions_list)
     /\ \E k \in 1..Len(instructions_list) : ReachedStrayEnd(instructions_list, k)) =>
        /\ ValidatedFresh =>
              (vres.st = "returned" /\ ~vres.is_valid
               /\ HasError(vres.errs, "unexpected-end"))
        /\ Parsed_ => (pres.st = "raised" /\ pres.exc = "DSLError")

\* C7: validate() never raises; every defect ends up in the returned list.
C7_ValidateNeverRaises == vres.st # "raised"

-----------------------------------------------------------------------------
(* Claims about the safe evaluator (SpecEval)                              *)

\* a construct outside the grammar: lambda, attribute access, subscript, or
\* a call of anything but one of the five allowed names
Foreign(node) ==
    \/ node.t \in {"Lambda", "Attribute", "Subscript"}
    \/ node.t = "Call" /\ ~(node.func.t = "Name" /\ node.func.id \in ALLOWED_FUNCTIONS)

SeqRange(seq) == {seq[j] : j \in 1..Len(seq)}

\* the operands of a node, whatever their position
Operands(node) ==
    CASE node.t = "BinOp" -> {node.left, node.right}
      [] node.t = "UnaryOp" -> {node.operand}
      [] node.t = "BoolOp" -> SeqRange(node.values)
      [] node.t = "Compare" -> {node.left} \cup SeqRange(node.comparators)
      [] node.t = "Call" -> {node.func} \cup SeqRange(node.args)
                            \cup {kw.value : kw \in SeqRange(node.keywords)}
      [] node.t = "Attribute" -> {node.value}
      [] node.t = "Subscript" -> {node.value, node.slice}
      [] node.t = "Lambda" -> {node.body}
      [] OTHER -> {}

RECURSIVE HasForeign(_)
HasForeign(node) == Foreign(node) \/ \E c \in Operands(node) : HasForeign(c)

\* C2: safe_eval_expr fails with DSLError on every expression that contains,
\* at any depth and in any operand position, a construct outside the
\* grammar, and never visits such a construct without failing.
C2_ForeignConstructAlwaysRejected ==
    (evres.st = "eval" /\ evinput.ty = "str" /\ evinput.eval.syntax = "ok") =>
        /\ HasForeign(evinput.eval.body) => evres.exc = "DSLError"
        /\ evres.exc = NoExc =>
              \A j \in 1..Len(evres.seen) : evres.seen[j] \in VisitMethods

\* C3: when safe_eval_expr or safe_exec_statement fails, the mapping handed
\* in is what it was before the call.
C3_FailureLeavesMappingUnchanged ==
    (evres.st # "none" /\ evres.exc # NoExc) => evctx = evres.before

\* an assignment whose right-hand side failed while being evaluated
C3_Witness ==
    /\ evres.st = "exec" /\ evres.exc # NoExc
    /\ evinput.ty = "str" /\ evinput.exec.syntax = "ok"
    /\ Len(evinput.exec.body) = 1 /\ evinput.exec.body[1].t = "Assign"
    /\ Len(evres.seen) > 1
    /\ evctx = evres.before

-----------------------------------------------------------------------------
(* Claims about the interpreter (SpecRun)                                  *)

\* the node at a path below the root (the block of an If is its child 1)
RECURSIVE NodeAt(_, _)
NodeAt(node, path) ==
    IF path = <<>> THEN node
    ELSE IF node.t = "Compound" THEN NodeAt(node.instructions[Head(path)], Tail(path))
    ELSE NodeAt(node.block, Tail(path))

\* the paths of the leaves below a node, in document order
RECURSIVE LeafPaths(_, _)
LeafPaths(node, path) ==
    IF node.t = "Compound" THEN
        LET n == Len(node.instructions)
            upto[k \in 0..n] ==
                IF k = 0 THEN <<>>
                ELSE upto[k - 1] \o LeafPaths(node.instructions[k], Append(path, k))
        IN  upto[n]
    ELSE IF node.t = "If" THEN LeafPaths(node.block, Append(path, 1))
    ELSE <<path>>

\* Context.variables when run() started
InitialContext == IF log = <<>> THEN context ELSE log[1].ctx

\* the condition is truthy against the mapping
ConditionHolds(condition, ctx) ==
    LET r == safe_eval_expr(condition, ctx)
    IN  r.exc = NoExc /\ Truthy(r.v)

\* the If at path q was reached and its condition was truthy against the
\* context of that moment
ReachedTruthy(q) ==
    \E j \in 1..Len(log) :
        /\ log[j].path = q
        /\ ConditionHolds(NodeAt(root_instruction, q).condition, log[j].ctx)

\* leaves, in document order, all of whose enclosing Ifs were reached truthy
GuardedLeaves ==
    SelectSeq(LeafPaths(root_instruction, <<>>),
              LAMBDA lp : \A k \in 0..(Len(lp) - 1) :
                  LET q == SubSeq(lp, 1, k)
                  IN  NodeAt(root_instruction, q).t = "If" => ReachedTruthy(q))

\* paths of the leaves whose execute() was called, in call order
ExecutedLeaves ==
    LET es == SelectSeq(log, LAMBDA e : e.t \notin {"Compound", "If"})
    IN  [j \in 1..Len(es) |-> es[j].path]

\* payloads of the Trade instructions that executed, in execution order
ExecutedTrades ==
    LET es == SelectSeq(log, LAMBDA e : e.t = "Trade" /\ e.exc = NoExc)
    IN  [j \in 1..Len(es) |-> NodeAt(root_instruction, es[j].path).trade_data]

IsPrefix(a, b) == Len(a) <= Len(b) /\ a = SubSeq(b, 1, Len(a))

\* C8: after N Trade instructions the "trades" list is the list it was at
\* the start (empty when there was none) followed by the N payloads in
\* execution order.
C8_TradesAppendedInOrder ==
    LET had == "trades" \in DOMAIN InitialContext
        before == IF had THEN InitialContext["trades"] ELSE PyList(<<>>)
    IN  before.ty = "list" =>
            IF ExecutedTrades = <<>> /\ ~had THEN "trades" \notin DOMAIN context
            ELSE /\ "trades" \in DOMAIN context
                 /\ context["trades"] = PyList(before.items \o ExecutedTrades)

\* two different payloads were executed against a context without "trades"
C8_Witness ==
    /\ status = "done"
    /\ "trades" \notin DOMAIN InitialContext
    /\ Len(ExecutedTrades) >= 2
    /\ ExecutedTrades[1] # ExecutedTrades[2]
    /\ context["trades"].items = ExecutedTrades

\* C9: when an instruction fails, run() raises DSLError, the failing call
\* is the last execute() of the run, and the context is the one the failing
\* instruction was called with, mutations of the earlier instructions kept.
C9_FailureStopsRunKeepsContext ==
    /\ [](status = "failed" =>
            /\ runexc = "DSLError"
            /\ todo = <<>>
            /\ log # <<>>
            /\ log[Len(log)].exc # NoExc
            /\ \A j \in 1..(Len(log) - 1) : log[j].exc = NoExc
            /\ context = log[Len(log)].ctx)
    /\ [][status # "failed"]_vars

\* a Trade failed on a non-list "trades" after an Operation had changed x
C9_Witness ==
    /\ status = "failed"
    /\ log[Len(log)].exc = "RuntimeError"
    /\ context # InitialContext
    /\ \E j \in 1..Len(log) : log[j].t = "Operation"

\* C10 as claimed: the leaves a run executed are exactly the guarded leaves.
C10_ExecutedLeavesAreTheGuardedLeaves ==
    status \in {"done", "failed"} => ExecutedLeaves = GuardedLeaves

\* C10 amended: at every moment the executed leaves are a prefix of the
\* guarded leaves in document order, and exactly the guarded leaves once
\* run() has returned normally (a run that fails stops at the failing
\* instruction); no node executes twice, a Compound or an If leaves the
\* context as it is, and the run ends.
C10_DepthFirstWalk ==
    /\ [](/\ IsPrefix(ExecutedLeaves, GuardedLeaves)
          /\ status = "done" => ExecutedLeaves = GuardedLeaves
          /\ \A j, k \in 1..Len(log) : log[j].path = log[k].path => j = k)
    /\ [][(Len(log') > Len(log) /\ log'[Len(log')].t \in {"Compound", "If"})
             => context' = context]_vars
    /\ <>(status \in {"done", "failed"})

\* a falsy If skipped its non-empty block and a later leaf ran
C10_Witness ==
    /\ status = "done"
    /\ ExecutedLeaves # <<>>
    /\ ExecutedLeaves = GuardedLeaves
    /\ \E j \in 1..Len(log) :
          /\ log[j].t = "If" /\ ~log[j].taken
          /\ NodeAt(root_instruction, log[j].path).block.instructions # <<>>

\* C11: every failure of safe_eval_expr and of safe_exec_statement on a
\* text is raised as DSLError and as no other exception type.
C11_EveryFailureIsDSLError ==
    (evres.st # "none" /\ evinput.ty = "str" /\ evres.exc # NoExc)
        => evres.exc = "DSLError"

\* the text is one statement of the form  name = expression
IsNameAssignment(statement) ==
    /\ statement.ty = "str" /\ statement.exec.syntax = "ok"
    /\ Len(statement.exec.body) = 1
    /\ statement.exec.body[1].t = "Assign"
    /\ Len(statement.exec.body[1].targets) = 1
    /\ statement.exec.body[1].targets[1].t = "Name"

\* the text is one statement of the form  print(...)
IsPrintCall(statement) ==
    /\ statement.ty = "str" /\ statement.exec.syntax = "ok"
    /\ Len(statement.exec.body) = 1
    /\ statement.exec.body[1].t = "Expr"
    /\ statement.exec.body[1].value.t = "Call"
    /\ statement.exec.body[1].value.func.t = "Name"
    /\ statement.exec.body[1].value.func.id = "print"

\* C12: safe_exec_statement accepts exactly two statement forms. An
\* assignment to one plain name whose value evaluates stores that value
\* under the name and changes no other variable; a call to print changes
\* nothing; every other text (several statements, a tuple or other non-name
\* target, several targets, an augmented assignment, a bare expression, a
\* call to another function, text that does not parse) fails with DSLError
\* and changes nothing.
C12_AssignmentOrPrintOnly ==
    evres.st = "exec" =>
        IF IsNameAssignment(evinput)
        THEN LET node == evinput.exec.body[1]
                 var_name == node.targets[1].id
                 value == visit(node.value, evres.before)
             IN  /\ evres.exc = value.exc
                 /\ value.exc = NoExc =>
                       /\ DOMAIN evctx = DOMAIN evres.before \cup {var_name}
                       /\ evctx[var_name] = value.v
                       /\ \A k \in DOMAIN evres.before :
                             k # var_name => evctx[k] = evres.before[k]
        ELSE IF IsPrintCall(evinput)
        THEN evctx = evres.before
        ELSE evres.exc = "DSLError" /\ evctx = evres.before

\* an assignment stored its value while another variable was in the mapping
C12_Witness ==
    /\ evres.st = "exec" /\ evres.exc = NoExc
    /\ IsNameAssignment(evinput)
    /\ evctx # evres.before
    /\ \E k \in DOMAIN evres.before : k # evinput.exec.body[1].targets[1].id

\* the input of the call is shorter than the window of its indicator
ShorterThanWindow(c) ==
    CASE c.fn \in {"compute_sma", "compute_ema", "compute_ema_series",
                   "compute_bollinger_bands"} -> Len(c.prices) < c.period
      [] c.fn = "compute_atr" -> Len(c.closes) < c.period + 1
      [] c.fn = "compute_rsi" -> Len(c.prices) < c.period + 1
      [] c.fn = "compute_macd" -> Len(c.prices) < c.slow

\* C13: an indicator function called on an input shorter than its window
\* (SMA, EMA, EMA series, Bollinger Bands: fewer prices than period; ATR:
\* fewer closes than period + 1; RSI: fewer prices than period + 1; MACD:
\* fewer prices than slow) raises DSLError and returns no value.
C13_ShortInputRaisesDSLError ==
    (ret.st # "none" /\ ShorterThanWindow(call))
        => (ret.st = "raised" /\ ret.exc = "DSLError" /\ ret.v = None)

\* compute_atr was called with exactly period closes and raised
C13_Witness ==
    /\ ret.st = "raised" /\ call.fn = "compute_atr"
    /\ call.period > 0 /\ Len(call.closes) = call.period
    /\ ShorterThanWindow(call)

\* C14: compute_macd with positive periods raises DSLError, and nothing
\* else, whenever there are fewer prices than slow or the macd series of
\* len(prices) - slow values has no value left after the signal values that
\* seed the signal EMA; in every other case with fast <= slow it returns
\* macd, signal and histogram with histogram = macd - signal.
C14_MacdFailsOnlyWithDSLError ==
    (ret.st # "none" /\ call.fn = "compute_macd"
        /\ call.fast >= 1 /\ call.slow >= 1 /\ call.signal >= 1)
    => IF Len(call.prices) < call.slow
          \/ Len(call.prices) - call.slow < call.signal + 1
       THEN ret.st = "raised" /\ ret.exc = "DSLError"
       ELSE call.fast <= call.slow
               => /\ ret.st = "returned"
                  /\ DOMAIN ret.v = {"macd", "signal", "histogram"}
                  /\ ret.v.histogram = FSub(ret.v.macd, ret.v.signal)

\* the payload lacks a key that execute() requires, or names no supported
\* indicator
LacksRequired(d) ==
    \/ "name" \notin DOMAIN d \/ "var" \notin DOMAIN d
    \/ d["name"] \notin SUPPORTED_INDICATORS
    \/ d["name"] = "MACD" /\ {"fast", "slow", "signal"} \ DOMAIN d # {}

\* C15: IndicatorInstruction.execute raises DSLError when 'name' or 'var'
\* is missing, when the name is MACD and one of 'fast', 'slow', 'signal' is
\* missing, or when the name is not a supported indicator; every failure is
\* a DSLError and stores nothing in the context; on success exactly the
\* variable named by 'var' is set and no other variable changes.
C15_IndicatorStoresOnlyOnSuccess ==
    \A j \in 1..Len(log) :
        log[j].t = "Indicator" =>
            LET d == NodeAt(root_instruction, log[j].path).indicator_data.d
            IN  /\ LacksRequired(d) => log[j].exc = "DSLError"
                /\ log[j].exc \in {NoExc, "DSLError"}
                /\ log[j].exc # NoExc => context = log[j].ctx
                /\ log[j].exc = NoExc =>
                      /\ DOMAIN context = DOMAIN log[j].ctx \cup {d["var"]}
                      /\ context[d["var"]].ty \in {"float", "dict"}
                      /\ \A k \in DOMAIN log[j].ctx :
                            k # d["var"] => context[k] = log[j].ctx[k]

\* a MACD was computed and stored over an existing variable, the rest of the
\* context being kept
C15_Witness ==
    /\ status = "done"
    /\ \E j \in 1..Len(log) :
          /\ log[j].t = "Indicator" /\ log[j].exc = NoExc
          /\ NodeAt(root_instruction, log[j].path).indicator_data.d["name"] = "MACD"
          /\ "v" \in DOMAIN log[j].ctx
          /\ context # log[j].ctx

\* the seconds a duration asks for, read off the request: the number itself,
\* or the signed digits (or nan) of the text times 1, 60 or 3600
UnitSeconds(c) == CASE Lower(c) = "s" -> 1 [] Lower(c) = "m" -> 60 [] Lower(c) = "h" -> 3600

RequestedSeconds(duration) ==
    IF duration.ty # "str"
    THEN IF "nan" \in DOMAIN duration THEN NaN ELSE Fl(duration.n * Pow10(duration.exp10))
    ELSE LET cs == duration.chars
             number == SubSeq(cs, 1, Len(cs) - 1)
             digits == IF number[1] \in {"-", "+"} THEN Tail(number) ELSE number
         IN  IF digits = <<"n", "a", "n">> THEN NaN
             ELSE Fl((IF number[1] = "-" THEN 0 - 1 ELSE 1)
                        * DecimalValue(digits) * UnitSeconds(cs[Len(cs)]))

\* C16: every WaitInstruction that is constructed has duration max(2, s),
\* s being the seconds requested; in particular its duration is a number
\* that is not below 2.
C16_DurationIsAtLeastTheFloor ==
    (ret.st = "returned" /\ call.fn = "WaitInstruction")
    => LET s == RequestedSeconds(call.duration)
           duration == ret.v.duration
       IN  /\ ~duration.nan /\ duration.v >= MIN_WAIT_LENGTH
           /\ ~s.nan => duration.v = IF s.v < 2 THEN 2 ELSE s.v

\* C17: constructing a WaitInstruction fails with DSLError for every text
\* whose last character is not s, m or h or whose prefix is no number (the
\* empty text and one-character texts included), with TypeError for every
\* value that is neither a number nor a text, and with no other exception
\* type.
C17_ConstructionFailsWithDSLErrorOrTypeError ==
    (ret.st # "none" /\ call.fn = "WaitInstruction")
    => LET d == call.duration
       IN  /\ ret.st = "raised" => ret.exc \in {"DSLError", "TypeError"}
           /\ d.ty \notin {"int", "float", "bool", "str"}
                 => ret.st = "raised" /\ ret.exc = "TypeError"
           /\ (d.ty = "str"
                 /\ (\/ d.chars = <<>>
                     \/ Lower(d.chars[Len(d.chars)]) \notin {"s", "m", "h"}
                     \/ FloatOfChars(SubSeq(d.chars, 1, Len(d.chars) - 1)).exc # NoExc))
                 => ret.st = "raised" /\ ret.exc = "DSLError"

\* the keys an indicator record must hold, in the order they are checked
RequiredKeys(name) ==
    IF name = "MACD" THEN <<"fast", "slow", "signal", "source", "var">>
    ELSE <<"period", "source", "var">>

\* the defects of one record taken alone, at 0-based position index
RecordDefects(r, index) ==
    IF r.ty # "dict" THEN <<>>
    ELSE IF r.key = "indicator" /\ r.val.ty = "dict" THEN
        IF "name" \notin DOMAIN r.val.d
        THEN <<Err("indicator-missing-key", index, "name")>>
        ELSE IF r.val.d["name"] \notin SUPPORTED_INDICATORS
        THEN <<Err("indicator-not-supported", index, "")>>
        ELSE LET keys == RequiredKeys(r.val.d["name"])
                 absent == SelectSeq(keys, LAMBDA k : k \notin DOMAIN r.val.d)
             IN  [j \in 1..Len(absent) |->
                     Err(IF r.val.d["name"] = "MACD" THEN "macd-missing-key"
                         ELSE "indicator-missing-key", index, absent[j])]
    ELSE IF r.key = "if" THEN validate_if(r, index).errs
    ELSE IF r.key = "operation" THEN validate_operation(r, index).errs
    ELSE IF r.key = "wait" THEN validate_wait(r, index).errs
    ELSE IF r.key = "trade" /\ r.val.ty = "dict" THEN validate_trade(r, index).errs
    ELSE <<>>

\* the defects of the first k records, record by record in program order
RECURSIVE DefectsUpTo(_, _)
DefectsUpTo(prog, k) ==
    IF k = 0 THEN <<>>
    ELSE DefectsUpTo(prog, k - 1) \o RecordDefects(prog[k], k - 1)

\* the messages that are about one record (not about the bracketing)
AboutRecord(e) == e.kind \notin {"unclosed-if", "unexpected-end"}

\* C18: validate() does not stop at the first defect: it returns, and its
\* list holds one error per missing required key of every indicator record
\* with a supported name (period, source, var; for MACD fast, slow, signal,
\* source, var) and the defects of every later record after those of the
\* earlier ones, in program order.
C18_EveryDefectReportedInOrder ==
    (vres.st # "none" /\ vres.fresh)
    => /\ vres.st = "returned"
       /\ SelectSeq(vres.errs, AboutRecord)
             = DefectsUpTo(instructions_list, Len(instructions_list))

\* C19: load_market_data merges the mapping the source returned into the
\* context: every returned key holds the returned value, every other
\* variable is kept and nothing else appears; when the source fails,
\* DSLError is raised and the context is unchanged.
C19_MarketDataMerged ==
    (ret.st # "none" /\ call.fn = "load_market_data")
    => IF call.source.exc # NoExc
       THEN ret.st = "raised" /\ ret.exc = "DSLError" /\ context = ret.before
       ELSE call.source.v.ty = "dict"
               => LET data == call.source.v.d
                  IN  /\ ret.st = "returned"
                      /\ DOMAIN context = DOMAIN ret.before \cup DOMAIN data
                      /\ \A k \in DOMAIN data : context[k] = data[k]
                      /\ \A k \in DOMAIN ret.before \ DOMAIN data :
                            context[k] = ret.before[k]

\* a returned key replaced the value the context held while another
\* variable was kept
C19_Witness ==
    /\ ret.st = "returned" /\ call.fn = "load_market_data"
    /\ \E k \in DOMAIN ret.before \cap DOMAIN call.source.v.d :
          ret.before[k] # call.source.v.d[k] /\ context[k] = call.source.v.d[k]
    /\ \E k \in DOMAIN ret.before \ DOMAIN call.source.v.d : context[k] = ret.before[k]

-----------------------------------------------------------------------------
(* C20 *)

\* the operators of propositional logic the five symbols are read as
InfixMeaning(symbol, a, b) ==
    CASE symbol = "→" -> ~a \/ b
      [] symbol = "↔" -> a = b
      [] symbol = "⊕" -> a # b
      [] symbol = "↑" -> ~(a /\ b)
      [] symbol = "↓" -> ~(a \/ b)

\* the text 'a symbol b'
InfixText(symbol) == PyChars(<<"a", " ", symbol, " ", "b">>)

\* C20: with a and b bound to booleans, safe_eval_expr returns for 'a → b',
\* 'a ↔ b', 'a ⊕ b', 'a ↑ b' and 'a ↓ b' what implies, iff, xor, nand and nor
\* return for a and b, which is (not a) or b, a == b, a != b, not (a and b)
\* and not (a or b), whatever the two booleans are.
C20_InfixOperatorsFollowTruthTables ==
    \A k \in 1..Len(InfixOperators) :
        (evres.st = "eval" /\ evinput = InfixText(InfixOperators[k].symbol)) =>
            /\ evres.exc = NoExc
            /\ evres.v = ApplyLambda(InfixOperators[k].fn, evres.before.a, evres.before.b)
            /\ evres.v = PyBool(InfixMeaning(InfixOperators[k].symbol,
                                             Truthy(evres.before.a), Truthy(evres.before.b)))

\* 'a → b' was evaluated with a true and b false, and came out false
C20_Witness ==
    /\ evres.st = "eval"
    /\ evinput = InfixText("→")
    /\ evres.before = [a |-> PyBool(TRUE), b |-> PyBool(FALSE)]
    /\ evres.exc = NoExc
    /\ evres.v = PyBool(FALSE)

-----------------------------------------------------------------------------
(* C22 *)

\* C22: whenever DSLParser.parse returns a tree, the top-level block has
\* consumed the whole list: its final cursor equals the number of records.
\* A top-level block that returns with a smaller cursor makes parse raise
\* DSLError.
C22_ReturnedTreeConsumedTheList ==
    Parsed_ =>
        LET b == parse_block(instructions_list, 0, FALSE, <<>>)
        IN  /\ pres.st = "returned" =>
                  (b.exc = NoExc /\ pres.index = Len(instructions_list))
            /\ (b.exc = NoExc /\ b.index # Len(instructions_list)) =>
                  (pres.st = "raised" /\ pres.exc = "DSLError")

\* a program with a closed if-block and a record behind it was parsed
C22_Witness ==
    /\ pres.st = "returned"
    /\ pres.index = Len(instructions_list)
    /\ \E k \in 2..(Len(instructions_list) - 1) :
          IsEnd(instructions_list[k]) /\ ~IsEnd(instructions_list[k + 1])

-----------------------------------------------------------------------------
(* C24 *)

\* a text that ast.parse accepts as an expression
WellFormedCondition(condition) == condition.ty = "str" /\ condition.eval.syntax = "ok"

\* C24: a program with an "if" record whose condition is no text, or is a
\* text that does not parse as an expression, is rejected by
\* DSLParser.parse: parse raises and yields no tree.
C24_IllFormedConditionRejected ==
    (/\ Parsed_
     /\ \E k \in 1..Len(instructions_list) :
            /\ IsIf(instructions_list[k])
            /\ ~WellFormedCondition(instructions_list[k].val)) =>
        pres.st = "raised"

-----------------------------------------------------------------------------
(* C25 *)

\* the expression the last call evaluated: the condition, or the right-hand
\* side of a single assignment
EvaluatedExpr ==
    IF evres.st = "eval" THEN evinput.eval.body ELSE evinput.exec.body[1].value

\* the last call evaluated an and/or expression
EvaluatedBoolOp ==
    /\ evres.st # "none"
    /\ evinput.ty = "str"
    /\ IF evres.st = "eval" THEN evinput.eval.syntax = "ok"
       ELSE /\ evinput.exec.syntax = "ok"
            /\ Len(evinput.exec.body) = 1
            /\ evinput.exec.body[1].t = "Assign"
            /\ Len(evinput.exec.body[1].targets) = 1
            /\ evinput.exec.body[1].targets[1].t = "Name"
    /\ EvaluatedExpr.t = "BoolOp"
    /\ EvaluatedExpr.op \in {"And", "Or"}

\* the mapping the evaluator looks names up in
LookupContext ==
    IF evres.st = "eval" THEN local_context(evres.before) ELSE evres.before

\* each operand of the and/or evaluated on its own
OperandOutcomes == visit_all(EvaluatedExpr.values, LookupContext)

\* operand j ends the evaluation: it raises, or it is falsy under and, truthy
\* under or
EndsEvaluation(j) ==
    \/ OperandOutcomes[j].exc # NoExc
    \/ Truthy(OperandOutcomes[j].v) = (EvaluatedExpr.op = "Or")

\* the last operand that is evaluated
LastEvaluated ==
    LET ends == {j \in 1..Len(EvaluatedExpr.values) : EndsEvaluation(j)}
    IN  IF ends = {} THEN Len(EvaluatedExpr.values) ELSE Least(ends)

UnknownName(node) == node.t = "Name" /\ node.id \notin DOMAIN LookupContext

\* the node types visited for the operands 1..k, in visiting order
RECURSIVE SeenUpTo(_)
SeenUpTo(k) == IF k = 0 THEN <<>> ELSE SeenUpTo(k - 1) \o OperandOutcomes[k].seen

\* C25: the operands of an and/or expression are evaluated from left to
\* right up to the first decisive one (first falsy for and, first truthy for
\* or) and no further: an unknown variable behind it raises nothing, an
\* unknown variable up to it raises DSLError.
C25_ShortCircuitLeftToRight ==
    EvaluatedBoolOp =>
        /\ evres.seen = <<"BoolOp">> \o SeenUpTo(LastEvaluated)
        /\ (\A j \in 1..LastEvaluated : OperandOutcomes[j].exc = NoExc) => evres.exc = NoExc
        /\ (\E j \in 1..LastEvaluated : UnknownName(EvaluatedExpr.values[j])) =>
              evres.exc = "DSLError"

\* "1 and u": the unknown name is reached; "0 and u" in the same mapping
\* would not reach it
C25_Witness ==
    /\ EvaluatedBoolOp
    /\ Len(EvaluatedExpr.values) = 3
    /\ LastEvaluated = 2
    /\ UnknownName(EvaluatedExpr.values[3])
    /\ evres.exc = NoExc

-----------------------------------------------------------------------------
(* C26 *)

\* the text "t = e" for the expression text e: it parses as one assignment
\* of e's tree to the name t
AssignmentOf(e) == StmtText("t = e", <<Assign(<<Name("t")>>, e.eval.body)>>)

\* safe_eval_expr returned a value for the text evinput
EvalReturned ==
    /\ evres.st = "eval"
    /\ evinput.ty = "str"
    /\ "eval" \in DOMAIN evinput
    /\ evinput.eval.syntax = "ok"
    /\ evres.exc = NoExc

\* C26: whenever safe_eval_expr(e, m) returns a value v, the statement
\* "t = e" executed on m succeeds and binds t to v.
C26_AssignmentEvaluatesLikeCondition ==
    EvalReturned =>
        LET out == safe_exec_statement(AssignmentOf(evinput), evres.before)
        IN  /\ out.exc = NoExc
            /\ "t" \in DOMAIN out.after
            /\ out.after["t"] = evres.v

-----------------------------------------------------------------------------
(* C27 *)

\* the exponential average of period p as it stands behind the price at
\* index i (i > p)
EmaAt(prices, p, i) == EmaSteps(prices, p)[i - p]

\* the macd series compute_macd builds for the call c
MacdSeriesOf(c) ==
    macd_series(compute_ema_series(c.prices, c.fast).v,
                compute_ema_series(c.prices, c.slow).v)

\* compute_macd was called with periods between 1 and the number of prices
MacdCalled ==
    /\ ret # NoResult
    /\ call.fn = "compute_macd"
    /\ call.fast \in 1..Len(call.prices)
    /\ call.slow \in 1..Len(call.prices)

\* every element of the series is fast average minus slow average at one
\* price index, the last element at the last price
TailAligned(c) ==
    /\ Len(MacdSeriesOf(c)) = Len(c.prices) - c.slow
    /\ \A j \in 1..Len(MacdSeriesOf(c)) :
          MacdSeriesOf(c)[j] = FSub(EmaAt(c.prices, c.fast, c.slow + j),
                                    EmaAt(c.prices, c.slow, c.slow + j))

\* C27: for fast and slow up to the number of prices the macd series of
\* compute_macd has len(prices) - slow elements, each the fast average minus
\* the slow average at the same price index; the macd value returned is the
\* one at the last price.
C27_MacdSeriesAlignedOnTail ==
    MacdCalled =>
        /\ TailAligned(call)
        /\ ret.exc = NoExc =>
              ret.v.macd = FSub(EmaAt(call.prices, call.fast, Len(call.prices)),
                                EmaAt(call.prices, call.slow, Len(call.prices)))

-----------------------------------------------------------------------------
(* C28 *)

\* validate() returns on a validator whose earlier validate() has returned,
\* and finds the class-level list as that call left it
ValidatedAgain ==
    /\ vres.st = "returned" /\ vres'.st = "returned"
    /\ errors = vres.errs
    /\ calls' = calls + 1 /\ fresh' = FALSE /\ pres' = pres

\* C28: a second validate() that directly follows a first one on the same
\* validator returns the same flag and the same error entries.
C28_ValidateIdempotent ==
    [][ValidatedAgain => (vres'.is_valid = vres.is_valid /\ vres'.errs = vres.errs)]_vars

-----------------------------------------------------------------------------
(* C23 *)

\* the errors of one pass over the program, started on an empty list
OwnPass == validate(instructions_list, <<>>).errs

\* C23: the list validate() returns holds exactly the errors of that one pass
\* over the validator's program, whatever was constructed, validated or
\* parsed before the call.
C23_ReturnedErrorsAreOfOwnPass == vres.st = "returned" => vres.errs = OwnPass

-----------------------------------------------------------------------------
(* C29 *)

\* the "if" at position k is still open when the input ends
OpenAtEnd(prog, k) ==
    /\ IsIf(prog[k])
    /\ \A j \in k..Len(prog) : DepthAfter(prog, j) >= DepthAfter(prog, k)

\* the positions the entries of one kind name, in the order of the list
PositionsOf(errs, kind) ==
    LET of_kind == SelectSeq(errs, LAMBDA e : e.kind = kind)
    IN  [j \in 1..Len(of_kind) |-> of_kind[j].pos]

\* the 0-based positions of the stray "end" records among the first k records
RECURSIVE StrayEndsUpTo(_, _)
StrayEndsUpTo(prog, k) ==
    IF k = 0 THEN <<>>
    ELSE StrayEndsUpTo(prog, k - 1) \o (IF StrayEnd(prog, k) THEN <<k - 1>> ELSE <<>>)

\* C29: validate() on a fresh validator returns, with one unexpected-end
\* entry for each "end" met while no if-block is open, in program order (the
\* scan goes on behind each of them), and one unclosed-block entry for each
\* "if" still open when the input ends, naming the start of its block.
C29_BracketErrorsMatchReference ==
    ValidatedFresh =>
        /\ vres.st = "returned"
        /\ PositionsOf(vres.errs, "unexpected-end")
              = StrayEndsUpTo(instructions_list, Len(instructions_list))
        /\ Len(PositionsOf(vres.errs, "unclosed-if"))
              = DepthAfter(instructions_list, Len(instructions_list))
        /\ \A k \in 1..Len(instructions_list) :
              OpenAtEnd(instructions_list, k)
                  <=> \E j \in 1..Len(vres.errs) :
                          vres.errs[j].kind = "unclosed-if" /\ vres.errs[j].pos = k

-----------------------------------------------------------------------------
(* C30 *)

ScanEnded == scan.st \in {"returned", "raised"}

\* the cursor is within the list and no position was read twice, whatever
\* the nesting level it was read at
CursorWithinList ==
    scan.st # "idle" =>
        /\ scan.i <= Len(instructions_list)
        /\ \A j \in 1..Len(scan.visited) : scan.visited[j] < Len(instructions_list)
        /\ \A j, k \in 1..Len(scan.visited) : j < k => scan.visited[j] < scan.visited[k]

\* a turn of a loop that handles a record and goes on moves the cursor
\* forward; no turn moves it back
CursorAdvances ==
    /\ (scan.st = "running" /\ scan'.st = "running") => scan'.i >= scan.i
    /\ (scan.st = "running" /\ scan'.st = "running"
        /\ Len(scan'.visited) > Len(scan.visited)) => scan'.i > scan.i

\* C30: parse and validate terminate on every finite program: the cursor
\* strictly increases with each record processed, never exceeds the length
\* of the list, and every record is read at most once across all nesting
\* levels.
C30_ScansTerminate ==
    /\ []CursorWithinList
    /\ [][CursorAdvances]_vars
    /\ <>ScanEnded

\* a validate() that returned after it read every record once, among them a
\* stray "end" and the records of a nested block
C30_Witness ==
    /\ scan.st = "returned" /\ scan.op = "validate"
    /\ Len(instructions_list) = MaxProgLen
    /\ scan.visited = [j \in 1..Len(instructions_list) |-> j - 1]
    /\ StrayEnd(instructions_list, 1)
    /\ \E k \in 2..Len(instructions_list) : IsIf(instructions_list[k])

-----------------------------------------------------------------------------
(* C21 *)

\* instruction.execute(context) for a node of any type: the exception, the
\* context afterwards and the execute() calls the node goes on to make
Executed(exc, after, next) == [exc |-> exc, after |-> after, next |-> next]
\* an If goes on to its block when its condition was truthy
IfExecuted(entry, r) ==
    Executed(r.exc, r.after,
             IF r.taken THEN <<Pending(entry.node.block, Append(entry.path, 1))>> ELSE <<>>)
LeafExecuted(r) == Executed(r.exc, r.after, <<>>)
Execute(entry, ctx) ==
    IF entry.node.t = "Compound" THEN Executed(NoExc, ctx, CompoundChildren(entry))
    ELSE IF entry.node.t = "If" THEN IfExecuted(entry, IfExecute(entry.node, ctx))
    ELSE IF entry.node.t = "Operation" THEN LeafExecuted(OperationExecute(entry.node, ctx))
    ELSE IF entry.node.t = "Trade" THEN LeafExecuted(TradeExecute(entry.node, ctx))
    ELSE IF entry.node.t = "Indicator" THEN LeafExecuted(IndicatorExecute(entry.node, ctx))
    ELSE LeafExecuted(WaitExecute(entry.node, ctx))

\* a run() that has not begun
Walk(root) == [root_instruction |-> root, todo |-> <<>>, status |-> "idle", runexc |-> NoExc]
Walked(w, ctx) == [walk |-> w, context |-> ctx]

\* the walk after the execute() call at the head of its todo gave r: an
\* exception ends the run, wrapped by run()
AfterExecute(w, r) ==
    IF r.exc # NoExc
    THEN Walked([w EXCEPT !.status = "failed", !.todo = <<>>, !.runexc = RunWraps(r.exc)],
                r.after)
    ELSE Walked([w EXCEPT !.todo = r.next \o Tail(@)], r.after)

\* the next step of run() on the walk w whose Context reads ctx: the call of
\* root_instruction.execute, one execute() call, or the return
WalkStep(w, ctx) ==
    IF w.status = "idle"
    THEN Walked([w EXCEPT !.status = "running", !.todo = <<Pending(w.root_instruction, <<>>)>>],
                ctx)
    ELSE IF w.status # "running" THEN Walked(w, ctx)
    ELSE IF w.todo = <<>> THEN Walked([w EXCEPT !.status = "done"], ctx)
    ELSE AfterExecute(w, Execute(Head(w.todo), ctx))

\* run() on the tree root and a Context reading ctx, alone, after k steps
WalkAlone(root, ctx, k) ==
    LET run[j \in 0..k] ==
            IF j = 0 THEN Walked(Walk(root), ctx)
            ELSE WalkStep(run[j - 1].walk, run[j - 1].context)
    IN  run[k]

\* the steps an interpreter has taken: the call of run(), one per execute()
\* call, the return
StepsTaken(st, history) ==
    IF st = "idle" THEN 0 ELSE Len(history) + 1 + (IF st = "done" THEN 1 ELSE 0)

\* the context an interpreter began its run with
BeganWith(ctx, history) == IF history = <<>> THEN ctx ELSE history[1].ctx

\* an interpreter is where it would be alone after as many steps
AsAlone(root, ctx, pending, st, exc, history) ==
    LET alone == WalkAlone(root, BeganWith(ctx, history), StepsTaken(st, history))
    IN  /\ ctx = alone.context
        /\ st = alone.walk.status
        /\ exc = alone.walk.runexc
        /\ pending = alone.walk.todo

\* the variables dict of the Context the waiting interpreter holds
PeerContext == IF SameContext THEN context ELSE peer.context

\* a step of the interpreter in control leaves the other one as it is
OtherKept == peer'.id = peer.id => (peer' = peer /\ PeerContext' = PeerContext)

\* C21: two interpreters, each with a Context of its own, whose runs are
\* interleaved execute() call by execute() call, on one tree or on two: at
\* every moment, and so at its end, each context is the one its interpreter
\* would have reached alone, and no step of one changes the context of the
\* other.
C21_InterleavedRunsIsolated ==
    /\ [](peer.id # 0 =>
            /\ AsAlone(root_instruction, context, todo, status, runexc, log)
            /\ AsAlone(peer.root_instruction, PeerContext, peer.todo, peer.status,
                       peer.runexc, peer.log))
    /\ [][peer.id # 0 => OtherKept]_vars

\* both interpreters are in the middle of their runs on one shared tree, and
\* each has already changed its own context
C21_Witness ==
    /\ peer.id # 0
    /\ peer.root_instruction = root_instruction
    /\ status = "running" /\ todo # <<>>
    /\ peer.status = "running" /\ peer.todo # <<>>
    /\ context # BeganWith(context, log)
    /\ PeerContext # BeganWith(PeerContext, peer.log)
    /\ context # PeerContext

====
